---- MODULE Spec2Model ----
(***************************************************************************)
(* A model of playwright_mcp_proxy: the PlaywrightManager that supervises  *)
(* the Playwright MCP child process (server/playwright_manager.py), the   *)
(* tasks of the asyncio event loop that use it, and the child itself.      *)
(*                                                                         *)
(* It also covers the content store of the HTTP server (server/app.py,     *)
(* database/operations.py): the requests, responses and diff cursors that  *)
(* proxy_request and get_content keep, the line filter of get_content, and *)
(* _read_line_chunked on an asyncio.StreamReader.                          *)
(*                                                                         *)
(* The program runs on one asyncio event loop: a coroutine runs without    *)
(* interruption from one await that suspends to the next.  One action of   *)
(* the model is one such run: everything a task does between two           *)
(* suspensions.  The operators in lower case (send_request, stop, start,   *)
(* attempt_restart, ...) are the code of the methods of the same name, as  *)
(* functions from the state to the state; the actions apply them.          *)
(***************************************************************************)
EXTENDS Integers, Sequences, FiniteSets, TLC

(* ------------------------------ bounds -------------------------------- *)
\* children the supervisor may spawn: in Spec, in SupSpec and in RaceSpec
MaxSpawn == 2
SupMaxSpawn == 3
RaceMaxSpawn == 5
\* largest JSON-RPC id send_request may assign: in Spec, and in SupSpec
MaxMessageId == 3
SupMaxMessageId == 2
\* the clock stops at MaxTime, in LiveSpec at LiveMaxTime; the unit of time is
\* one restart window
MaxTime == 2
LiveMaxTime == 1
\* children spawned in StopSpec
StopMaxSpawn == 2
\* reference ids and sessions of the content store
MaxRefs == 2
MaxSessions == 2
\* lines of a content given to the line filter, and the most context lines
MaxLines == 6
MaxContext == 1
\* the limit of the StreamReader (65536 in the program, the default of
\* create_subprocess_exec) and the number of bytes the child writes
StreamLimit == 2
MaxWire == 5
\* lexical units of a reply line given to the reply handling of send_request
MaxReply == 5
\* characters of an error text; the 500 characters truncate_error lets through
\* and the 200 the client lets through, in characters of the model
MaxError == 5
ErrorMaxLength == 3
ToolMaxLength == 2
\* parts of the text of a browser_evaluate result given to capture_state
MaxParts == 2
\* GET /content handlers that run at the same time
MaxReaders == 2
\* in OrphanSpec a health probe is begun only while fewer ids than this are
\* assigned
OrphanProbeIds == 1

(* ------------------------- program constants -------------------------- *)
\* settings.restart_window, in units of one restart window
restart_window == 1
\* settings.max_restart_attempts
max_restart_attempts == 3
\* the threshold of consecutive probe failures in _health_check_loop
FailureThreshold == 3
\* self.process = None
NoProc == 0

(* ------------------------------- tasks -------------------------------- *)
\* the lifespan of the application: start() at startup, stop() at shutdown
Ext == <<"ext", 0>>
\* the k-th _health_check_loop task, created by the k-th start() that finishes
Loop(k) == <<"hc", k>>
Loops == {Loop(k) : k \in 1..RaceMaxSpawn}
\* the request handlers that call send_request
Callers == {<<"caller", 1>>, <<"caller", 2>>}
Tasks == {Ext} \cup Loops \cup Callers
\* self._health_check_task = None, and the lock with no owner
NoTask == <<"none", 0>>
Children == 1..RaceMaxSpawn

VARIABLES
    process,            \* self.process: the child the handle names, or NoProc
    is_healthy,         \* self.is_healthy
    restart_attempts,   \* self.restart_attempts: the deque of timestamps
    health_task,        \* self._health_check_task
    message_id,         \* self._message_id
    lock_owner,         \* self._lock: the task that holds it (or was handed it)
    lock_waiters,       \* self._lock._waiters, in FIFO order
    pc,                 \* where each task is suspended
    fails,              \* consecutive_failures of each health-check loop
    req,                \* the id of the request the task's running call wrote
    aux,                \* the child whose stdout the task reads / whose exit it awaits
    outcome,            \* how a caller's send_request ended
    got,                \* the id of the reply line a finished call consumed
    child,              \* each child process: "unborn", "running", "exited"
    inbox,              \* request ids each child has read from stdin, unanswered
    outbox,             \* reply ids each child has written to stdout, unread
    spawned,            \* children spawned so far
    now,                \* the last value time.time() returned
    history,            \* every restart attempt recorded: [at, backoff, n, cause]
    wrote_unhealthy,    \* a request line was written while is_healthy was false
    saw_restart,        \* callers that were waiting for the lock when a restart stopped the child
    refused_oldest,     \* restart_attempts[0] at the last refused restart, or -1
    held,               \* RaceSpec: loops whose sleep began during a restart still under way
    last_stop           \* the path the stop() that returned last took through lines 83-99

\* the database and the HTTP handlers of server/app.py
VARIABLES
    sessions,           \* sessions table: the state of each session, "none" before it is created
    requests,           \* requests table: the ref_ids that have a row
    responses,          \* responses table: for each ref_id <<>> or <<row>>
    diff_cursors,       \* diff_cursors table: for each ref_id <<>> or <<row>>
    pending,            \* proxy_request handlers suspended in send_request: ref_id -> <<>> or <<call>>
    http                \* the handler that finished last: its request and what it returned

\* the line filter of get_content, as a function of its arguments
VARIABLES
    filter_in,          \* content, search_for, before_lines, after_lines
    filter_out          \* the filtered content, <<>> or <<content>>

\* _read_line_chunked and the StreamReader of the child's stdout
VARIABLES
    wire,               \* every byte the child writes, in order
    feed,               \* the bytes of wire that have not reached the StreamReader
    buffer,             \* StreamReader._buffer
    eof,                \* StreamReader._eof
    paused,             \* StreamReader._paused
    chunks,             \* chunks of the _read_line_chunked under way
    rpc,                \* where _read_line_chunked is: "idle", "readuntil", "read"
    frames,             \* what the calls of _read_line_chunked have returned, in order
    replies             \* how send_request went on with each of them (lines 175-184)

\* the reply handling of send_request, as a function of the reply line
VARIABLES
    reply_in,           \* response_line
    reply_out           \* <<>> or <<how send_request ends>>

\* an error text on its way to the caller of the MCP client
VARIABLES
    error_in,           \* str(e), the error text
    error_http,         \* the error field of the ProxyResponse, <<>> or <<text>>
    error_tool          \* the text of the tool result of the client, <<>> or <<text>>

\* capture_state of the SessionStateManager (server/session_state.py)
VARIABLES
    cap_calls,          \* the functions of the browser_evaluate calls issued, in order
    cap_got,            \* what each call that has ended returned, None when it raised
    cap_ret             \* <<>> or <<what capture_state returned>>

\* the GET /content handlers under way, each between two of its awaits
VARIABLES
    reads               \* for each handler where it is and what it holds

supVars == <<process, is_healthy, restart_attempts, health_task, message_id,
          lock_owner, lock_waiters, pc, fails, req, aux, outcome, got, child,
          inbox, outbox, spawned, now, history, wrote_unhealthy, saw_restart,
          refused_oldest, held, last_stop>>

storeVars == <<sessions, requests, responses, diff_cursors, pending, http>>

replyVars == <<reply_in, reply_out>>

errorVars == <<error_in, error_http, error_tool>>

captureVars == <<cap_calls, cap_got, cap_ret>>

moreVars == <<captureVars, reads>>

filterVars == <<filter_in, filter_out, replyVars, errorVars, moreVars>>

readerVars == <<wire, feed, buffer, eof, paused, chunks, rpc, frames, replies>>

vars == <<supVars, storeVars, filterVars, readerVars>>

\* the state as one value, for the operators that model the methods; ret is
\* how the send_request that just ran ended ("" while it is suspended) and
\* line the reply id it consumed
Cur == [process |-> process, is_healthy |-> is_healthy,
        restart_attempts |-> restart_attempts, health_task |-> health_task,
        message_id |-> message_id, lock_owner |-> lock_owner,
        lock_waiters |-> lock_waiters, pc |-> pc, fails |-> fails, req |-> req,
        aux |-> aux, outcome |-> outcome, got |-> got, child |-> child,
        inbox |-> inbox, outbox |-> outbox, spawned |-> spawned, now |-> now,
        history |-> history, wrote_unhealthy |-> wrote_unhealthy,
        saw_restart |-> saw_restart,
        refused_oldest |-> refused_oldest, last_stop |-> last_stop,
        ret |-> "", line |-> 0]

\* the suspensions of a restart: from the recording of the attempt to the end
\* of start()
RestartPcs == {"backoff", "stop_wait", "kill_wait", "spawn", "init_lock_wait",
               "init_read_wait"}

\* held after task t has acted and left state s.  A restart takes seconds (a
\* backoff of 1, 2 or 4 s, the shutdown timeout, the spawn) and the sleep of a
\* health-check loop half a minute: a loop that goes to sleep while another
\* is restarting does not wake before that restart is over.  Only RaceSpec
\* keeps track of this (held starts as {}); elsewhere held stays {NoTask} and a
\* sleep may end at any time.
Held(s, t) ==
    IF NoTask \in held THEN held
    ELSE IF ~\E g \in Loops : s.pc[g] \in RestartPcs THEN {}
    ELSE {h \in Loops :
            /\ s.pc[h] = "sleep"
            /\ IF h = t \/ pc[h] # "sleep"
               THEN \E g \in Loops \ {h} : s.pc[g] \in RestartPcs
               ELSE h \in held}

\* task t has run from state Cur to state s (r: s, computed once)
Apply(s, t) ==
  \E r \in {s} :
    /\ held' = Held(r, t)
    /\ process' = r.process
    /\ is_healthy' = r.is_healthy
    /\ restart_attempts' = r.restart_attempts
    /\ health_task' = r.health_task
    /\ message_id' = r.message_id
    /\ lock_owner' = r.lock_owner
    /\ lock_waiters' = r.lock_waiters
    /\ pc' = r.pc
    /\ fails' = r.fails
    /\ req' = r.req
    /\ aux' = r.aux
    /\ outcome' = r.outcome
    /\ got' = r.got
    /\ child' = r.child
    /\ inbox' = r.inbox
    /\ outbox' = r.outbox
    /\ spawned' = r.spawned
    /\ now' = r.now
    /\ history' = r.history
    /\ wrote_unhealthy' = r.wrote_unhealthy
    /\ saw_restart' = r.saw_restart
    /\ refused_oldest' = r.refused_oldest
    /\ last_stop' = r.last_stop
    /\ UNCHANGED <<storeVars, filterVars, readerVars>>

(* -------------------------------- text -------------------------------- *)
\* a str or bytes value is the sequence of its characters; None is <<>> and
\* a value that is there is <<value>>
None == <<>>
Some(x) == <<x>>

NL == "\n"

\* str.split("\n") (app.py line 350)
RECURSIVE split(_)
split(text) ==
    IF \A i \in 1..Len(text) : text[i] # NL THEN <<text>>
    ELSE LET i == CHOOSE k \in 1..Len(text) :
                      text[k] = NL /\ \A j \in 1..(k - 1) : text[j] # NL
         IN  <<SubSeq(text, 1, i - 1)>> \o split(SubSeq(text, i + 1, Len(text)))

\* "\n".join (app.py line 380)
RECURSIVE join(_)
join(lines) ==
    IF lines = <<>> THEN <<>>
    ELSE IF Len(lines) = 1 THEN lines[1]
    ELSE lines[1] \o <<NL>> \o join(Tail(lines))

\* `search_for in line` (app.py line 355)
contains(line, search_for) ==
    \E i \in 0..(Len(line) - Len(search_for)) :
        SubSeq(line, i + 1, i + Len(search_for)) = search_for

\* hashlib.sha256(content.encode()).hexdigest(): a digest that tells any two
\* contents of the model apart
compute_hash(content) == <<"sha256", content>>

(* ---------------------- the filter of get_content --------------------- *)
\* a filter that keeps the matching lines and no context
matching_indices_no_context(all_lines, search_for, before_lines, after_lines) ==
    {i \in 0..(Len(all_lines) - 1) : contains(all_lines[i + 1], search_for)}

\* app.py lines 351-365; indices count from 0 as in the program
matching_indices(all_lines, search_for, before_lines, after_lines) ==
    UNION {{i} \cup {i - b : b \in {x \in 1..before_lines : i - x >= 0}}
               \cup {i + a : a \in {x \in 1..after_lines :
                                        i + x < Len(all_lines)}} :
           i \in {k \in 0..(Len(all_lines) - 1) :
                     contains(all_lines[k + 1], search_for)}}

\* app.py lines 369-378: the loop over sorted(matching_indices)
RECURSIVE result_lines(_, _, _)
result_lines(all_lines, indices, prev_idx) ==
    IF indices = {} THEN <<>>
    ELSE LET idx == CHOOSE k \in indices : \A m \in indices : k <= m
             sep == IF prev_idx # None /\ idx - prev_idx[1] > 1
                    THEN <<(<<"-", "-">>)>> ELSE <<>>
         IN  sep \o <<all_lines[idx + 1]>>
                 \o result_lines(all_lines, indices \ {idx}, Some(idx))

\* app.py lines 346-382: the content get_content goes on with
filter_content(content, search_for, before_lines, after_lines) ==
    IF search_for = <<>> THEN content
    ELSE LET all_lines == split(content)
             indices == matching_indices(all_lines, search_for, before_lines,
                                         after_lines)
         IN  IF indices # {} THEN join(result_lines(all_lines, indices, None))
             ELSE <<>>

\* the lines, the contents and the arguments the filter is checked on
LineSet == {<<"x">>, <<"M">>, <<"-", "-">>}
FilterContents == {join(ls) : ls \in UNION {[1..n -> LineSet] : n \in 1..MaxLines}}
Searches == {<<>>, <<"M">>, <<"-">>}
FilterInputs ==
    [content : FilterContents, search_for : Searches,
     before_lines : 0..MaxContext, after_lines : 0..MaxContext]

(* -------------------------- the content store ------------------------- *)
\* ref_ids (uuids in the program) and session ids
Refs == 1..MaxRefs
Sessions == 1..MaxSessions

Tools == {"browser_snapshot", "browser_console_messages", "browser_navigate"}

\* the texts a tool result may carry
StoreContents == {join(<< <<"x">>, <<"M">>, <<"x">> >>), <<"M">>}

\* what send_request returns to proxy_request: a result with no `content`
\* (of a tool that failed), or with a `content` whose first item has no
\* "text" or has a text
RawResults ==
    {[content |-> None, isError |-> TRUE]} \cup
    {[content |-> Some([text |-> t]), isError |-> FALSE] :
        t \in {None} \cup {Some(c) : c \in StoreContents}}

\* a database freshly initialised (schema.py lines 7-72)
StoreEmpty ==
    /\ sessions = [x \in Sessions |-> "none"]
    /\ requests = {}
    /\ responses = [r \in Refs |-> None]
    /\ diff_cursors = [r \in Refs |-> None]
    /\ pending = [r \in Refs |-> None]
    /\ http = [op |-> "none"]

\* a PRIMARY KEY that lets a second row with the same key in
conflict_ignored(keys, k) == FALSE

\* INSERT of key k into a table whose PRIMARY KEY has the values `keys`
\* fails with an IntegrityError (schema.py lines 22, 36)
conflict(keys, k) == k \in keys

\* a proxy that keeps no text of any result
extract_nothing(tool, named, result) == None

\* lines 248-249, 252-253: result["content"][0].get("text", "") for the tool
\* named, else None
extract(tool, named, result) ==
    IF tool = named /\ result.content # None
    THEN Some(IF result.content[1].text = None THEN <<>>
              ELSE result.content[1].text[1])
    ELSE None

\* lines 258-270: the Response stored for a result
success_row(tool, result) ==
    [status |-> "success",
     result |-> Some([tool |-> tool, isError |-> result.isError]),
     page_snapshot |-> extract(tool, "browser_snapshot", result),
     console_logs |-> extract(tool, "browser_console_messages", result),
     error_message |-> None]

\* lines 298-303
error_row(error_str) ==
    [status |-> "error", result |-> None, page_snapshot |-> None,
     console_logs |-> None, error_message |-> Some(error_str)]

\* lines 274-287, 309-316: the ProxyResponse
ProxyResponse(ref_id, row, tool) ==
    [op |-> "proxy", code |-> 200, ref_id |-> ref_id, status |-> row.status,
     tool |-> tool, has_snapshot |-> row.page_snapshot # None,
     has_console_logs |-> row.console_logs # None,
     error |-> row.error_message]

\* a lookup that finds an active session for every session id
get_session_active(session_id) == "active"

\* Database.get_session (operations.py lines 71-91): the state of the
\* session, "none" when there is no row
get_session(session_id) == sessions[session_id]

\* a lookup that finds a response for every ref_id
get_response_any(ref_id) ==
    IF responses[ref_id] # None THEN responses[ref_id]
    ELSE Some(success_row("browser_snapshot",
                          [content |-> Some([text |-> Some(<<"M">>)]),
                           isError |-> FALSE]))

\* Database.get_response (operations.py lines 195-211)
get_response(ref_id) == responses[ref_id]

\* a store in which no response has a page snapshot
HasSnapshotNever(row) == FALSE

\* a cursor that holds the hash of the empty content
DiffCursorOfNothing(content) ==
    [cursor_position |-> 0, last_snapshot_hash |-> compute_hash(<<>>)]

\* `response.page_snapshot` is neither None nor "" (line 343)
HasSnapshot(row) == row.page_snapshot # None /\ row.page_snapshot[1] # <<>>

\* lines 389-395, 404-410, 426-427: the cursor of a content
DiffCursor(content) ==
    [cursor_position |-> Len(content),
     last_snapshot_hash |-> compute_hash(content)]

\* get_content, lines 339-430: the diff_cursors table it leaves and what it
\* returns
get_content(ref_id, search_for, reset_cursor, before_lines, after_lines) ==
    LET response == get_response(ref_id)
    IN  IF response = None
        THEN [cursors |-> diff_cursors, code |-> 404, content |-> <<>>]
        ELSE IF ~HasSnapshot(response[1])
        THEN [cursors |-> diff_cursors, code |-> 200, content |-> <<>>]
        ELSE LET content == filter_content(response[1].page_snapshot[1],
                                           search_for, before_lines, after_lines)
                 cursor  == diff_cursors[ref_id]
                 upsert  == [diff_cursors EXCEPT ![ref_id] = Some(DiffCursor(content))]
             IN  IF reset_cursor \/ cursor = None
                 THEN [cursors |-> upsert, code |-> 200, content |-> content]
                 ELSE IF cursor[1].last_snapshot_hash = compute_hash(content)
                 THEN [cursors |-> diff_cursors, code |-> 200, content |-> <<>>]
                 ELSE [cursors |-> upsert, code |-> 200, content |-> content]

\* get_content from its call to its first await that is not the last: a is
\* the arguments.  database.get_response returns (line 339); 404 without a
\* response and "" without a snapshot (lines 340-344), else the filter is
\* applied (lines 346-382) and the handler goes on to delete_diff_cursor
\* (line 387) or to get_diff_cursor (line 400)
content_start(a) ==
    LET response == get_response(a.ref_id)
    IN  IF response = None
        THEN [at |-> "done", args |-> a, code |-> 404, content |-> <<>>,
              cursor |-> None, reset_seen |-> FALSE]
        ELSE IF ~HasSnapshot(response[1])
        THEN [at |-> "done", args |-> a, code |-> 200, content |-> <<>>,
              cursor |-> None, reset_seen |-> FALSE]
        ELSE [at |-> IF a.reset_cursor THEN "delete" ELSE "get_cursor",
              args |-> a, code |-> 200,
              content |-> filter_content(response[1].page_snapshot[1],
                                         a.search_for, a.before_lines,
                                         a.after_lines),
              cursor |-> None, reset_seen |-> FALSE]

\* database.get_diff_cursor returns `cursor` (line 400): lines 402-429 up to
\* the await of upsert_diff_cursor, with the cursor to write and the content
\* to return
content_cursor(r, cursor) ==
    IF cursor = None
    THEN [r EXCEPT !.at = "upsert", !.cursor = Some(DiffCursor(r.content))]
    ELSE IF cursor[1].last_snapshot_hash = compute_hash(r.content)
    THEN [r EXCEPT !.at = "upsert", !.cursor = cursor, !.content = <<>>]
    ELSE [r EXCEPT !.at = "upsert", !.cursor = Some(DiffCursor(r.content))]

\* database.delete_diff_cursor has returned (line 387): lines 389-396 up to
\* the await of upsert_diff_cursor
content_delete(r) ==
    [r EXCEPT !.at = "upsert", !.cursor = Some(DiffCursor(r.content))]

\* the arguments of a GET /content
ContentArgs ==
    [ref_id : Refs, search_for : Searches, reset_cursor : BOOLEAN,
     before_lines : 0..MaxContext, after_lines : 0..MaxContext]

\* the handlers other than k have seen a reset since they were called
SeenReset(k) ==
    [j \in DOMAIN reads |-> IF j = k \/ reads[j].at = "idle" THEN reads[j]
                        ELSE [reads[j] EXCEPT !.reset_seen = TRUE]]

\* Database.connect on the database file the server had before (lines 127-
\* 129; operations.py lines 25-28): the tables are as they were left
reopen(table) == table

\* no reply is handled and no error text is on its way
ReplyIdle == reply_in = None /\ reply_out = None

ErrorIdle == error_in = None /\ error_http = None /\ error_tool = None

\* capture_state is not called
CaptureIdle == cap_calls = <<>> /\ cap_got = <<>> /\ cap_ret = None

\* the handlers of GET /content that may run at the same time
Readers == 1..MaxReaders

\* no GET /content is under way
ReadsIdle == reads = [k \in Readers |-> [at |-> "idle"]]

MoreIdle == CaptureIdle /\ ReadsIdle

\* no filter call is modelled
FilterOff == filter_in = None /\ filter_out = None

FilterIdle == FilterOff /\ ReplyIdle /\ ErrorIdle /\ MoreIdle

(* ------------------------- _read_line_chunked ------------------------- *)
Bytes == {"a", "b", NL}

\* what the child may write to its stdout
WireInputs == UNION {[1..n -> Bytes] : n \in 1..MaxWire}

\* b''.join(chunks) (line 136)
RECURSIVE bytes_join(_)
bytes_join(cs) == IF cs = <<>> THEN <<>> ELSE Head(cs) \o bytes_join(Tail(cs))

\* bytes.find(b'\n'), counting from 0; -1 when there is none
find_newline(b) ==
    IF \A i \in 1..Len(b) : b[i] # NL THEN -1
    ELSE (CHOOSE k \in 1..Len(b) : b[k] = NL /\ \A j \in 1..(k - 1) : b[j] # NL) - 1

\* a read that takes all that is buffered
take_all(b, n) == [data |-> b, rest |-> <<>>]

\* StreamReader.read(n) on a buffer that is not empty: at most n bytes from
\* its front (line 132)
take(b, n) ==
    [data |-> SubSeq(b, 1, IF n < Len(b) THEN n ELSE Len(b)),
     rest |-> SubSeq(b, (IF n < Len(b) THEN n ELSE Len(b)) + 1, Len(b))]

\* StreamReader._maybe_resume_transport
resume(p, b) == p /\ ~(Len(b) <= StreamLimit)

\* lines 120-136 from a call, or from a wake-up, of readuntil to the next
\* suspension or to the return.  r is [buffer, paused, eof, chunks, ret]: ret
\* is None while the call is suspended in readuntil, else <<the line>>.
\* readuntil returns the line when the newline is within the limit, raises
\* LimitOverrunError(isep) when it is beyond, LimitOverrunError(len(buffer))
\* when there is none in a buffer over the limit, IncompleteReadError at the
\* end of the stream, and otherwise waits for data
RECURSIVE read_line_chunked(_)
read_line_chunked(r) ==
    LET isep   == find_newline(r.buffer)
        buflen == Len(r.buffer)
    IN  IF isep # -1 /\ isep <= StreamLimit
        THEN LET t == take(r.buffer, isep + 1)
             IN  [r EXCEPT !.buffer = t.rest, !.paused = resume(@, t.rest),
                           !.ret = Some(bytes_join(Append(r.chunks, t.data))),
                           !.chunks = <<>>]
        ELSE IF isep # -1 \/ buflen > StreamLimit
        THEN LET t == take(r.buffer, IF isep # -1 THEN isep ELSE buflen)
             IN  read_line_chunked([r EXCEPT !.buffer = t.rest,
                                             !.paused = resume(@, t.rest),
                                             !.chunks = Append(@, t.data)])
        ELSE IF r.eof
        THEN [r EXCEPT !.buffer = <<>>,
                       !.ret = Some(bytes_join(Append(r.chunks, r.buffer))),
                       !.chunks = <<>>]
        ELSE [r EXCEPT !.paused = FALSE]

(* ------------------- the reply handling of send_request --------------- *)
\* the lexical units of the JSON texts the child may write: braces, comma,
\* the members "result": r, "error": e and "error": f, and the number 1;
\* the bytes "a" and "b" are units of no JSON text
Members == {"R", "E", "F"}
JsonTokens == {"{", "}", ",", "1"} \cup Members

\* the value of the member that names a payload
Payload(m) == IF m = "R" THEN "r" ELSE IF m = "E" THEN "e" ELSE "f"

\* json.loads(response_line.decode()) (line 178): None for a text that is
\* no JSON value (JSONDecodeError), else the value.  White space around the
\* value is skipped; of two members with the same name the last one counts
json_loads(line) ==
    LET toks  == SelectSeq(line, LAMBDA b : b # NL)
        n     == Len(toks)
        inner == SubSeq(toks, 2, n - 1)
        m     == Len(inner)
        errs  == {i \in 1..m : inner[i] \in {"E", "F"}}
        last  == CHOOSE i \in errs : \A j \in errs : j <= i
    IN  IF toks = <<"1">>
        THEN Some([type |-> "int", result |-> None, error |-> None])
        ELSE IF /\ n >= 2 /\ toks[1] = "{" /\ toks[n] = "}"
                /\ \/ m = 0
                   \/ /\ m % 2 = 1
                      /\ \A i \in 1..m : IF i % 2 = 1 THEN inner[i] \in Members
                                           ELSE inner[i] = ","
        THEN Some([type |-> "object",
                   result |-> IF \E i \in 1..m : inner[i] = "R"
                              THEN Some(Payload("R")) ELSE None,
                   error |-> IF errs # {} THEN Some(Payload(inner[last]))
                             ELSE None])
        ELSE None

\* a send_request that takes the result of a reply and never looks for an error
handle_reply_no_error_check(response_line) ==
    LET response == json_loads(response_line)
    IN  IF response_line = <<>> THEN [ret |-> "EmptyResponse", value |-> ""]
        ELSE IF response = None THEN [ret |-> "JSONDecodeError", value |-> ""]
        ELSE [ret |-> "result",
              value |-> IF response[1].result # None THEN response[1].result[1]
                        ELSE "{}"]

\* a send_request that takes the end of the stream for a reply
handle_reply_no_empty_check(response_line) ==
    [ret |-> "result", value |-> "{}"]

\* lines 175-184: how send_request ends once the reply line is read, and the
\* value it returns or its exception carries.  `"error" in response` raises
\* TypeError on a number.
handle_reply(response_line) ==
    LET response == json_loads(response_line)
    IN  IF response_line = <<>> THEN [ret |-> "EmptyResponse", value |-> ""]
        ELSE IF response = None THEN [ret |-> "JSONDecodeError", value |-> ""]
        ELSE IF response[1].type # "object" THEN [ret |-> "TypeError", value |-> ""]
        ELSE IF response[1].error # None
        THEN [ret |-> "RemoteError", value |-> response[1].error[1]]
        ELSE [ret |-> "result",
              value |-> IF response[1].result # None THEN response[1].result[1]
                        ELSE "{}"]

(* ------------------------------ error texts -------------------------- *)
\* text[:n]
slice(text, n) == SubSeq(text, 1, IF n < Len(text) THEN n ELSE Len(text))

\* f"(truncated, {n} total chars)"
Marker(n) == <<"(truncated, ", ToString(n), " total chars)">>

Ellipsis == <<".", ".", ".", " ">>

\* truncate_error (app.py lines 43-47)
truncate_error(error_msg, max_length) ==
    IF Len(error_msg) <= max_length THEN error_msg
    ELSE slice(error_msg, max_length) \o Ellipsis \o Marker(Len(error_msg))

\* the error text of the tool result: str(data.get('error', ...))[:200], and
\* str(e)[:200] (mcp_server.py lines 230, 241, 246)
tool_error(error) == slice(error, ToolMaxLength)

\* the error texts
ErrorChars == {"a", "b"}
ErrorTexts == UNION {[1..n -> ErrorChars] : n \in 0..MaxError}

(* ---------------------------- capture_state --------------------------- *)
\* the JavaScript functions capture_state has browser_evaluate run, in the
\* order of its calls (session_state.py lines 50, 65, 80, 92, 104)
CaptureFunctions ==
    <<"window.location.href", "document.cookie",
      "JSON.stringify(localStorage)", "JSON.stringify(sessionStorage)",
      "JSON.stringify({width, height})">>

\* a text is the sequence of its parts between "; "; a part is what
\* split("=", 1) makes of it: a name and a value, or one piece with no "="
CookieParts == {<<"n", "v">>, <<"x">>}
EvaluateTexts == UNION {[1..n -> CookieParts] : n \in 0..MaxParts}

\* what send_request returns for a browser_evaluate: a result with no
\* content, or with a content whose first item has no "text" or has a text
EvaluateResults ==
    {[content |-> None]} \cup
    {[content |-> Some([text |-> t])] :
        t \in {None} \cup {Some(x) : x \in EvaluateTexts}}

\* _extract_evaluate_result (lines 145-147)
extract_evaluate_result(result) ==
    IF result.content # None
    THEN IF result.content[1].text = None THEN <<>> ELSE result.content[1].text[1]
    ELSE <<>>

\* `"=" in part`
has_equals(part) == Len(part) > 1

\* _parse_cookie_string (lines 161-169)
parse_cookie_string(cookie_str) ==
    IF cookie_str = <<>> THEN <<>>
    ELSE LET parts == SelectSeq(cookie_str, has_equals)
         IN  [i \in 1..Len(parts) |-> [name |-> parts[i][1], value |-> parts[i][2]]]

\* json.dumps of the list of cookies (line 72): the JSON text of the list
json_dumps(cookies) == [json |-> cookies]

\* lines 111-119: the SessionSnapshot, from what the five calls returned
SessionSnapshot(results) ==
    [current_url |-> extract_evaluate_result(results[1][1]),
     cookies |-> json_dumps(parse_cookie_string(extract_evaluate_result(results[2][1]))),
     local_storage |-> extract_evaluate_result(results[3][1]),
     session_storage |-> extract_evaluate_result(results[4][1]),
     viewport |-> extract_evaluate_result(results[5][1])]

\* a capture_state that returns what it has when a call fails
capture_failed_partial(results) ==
    Some([current_url |-> IF Len(results) > 1 THEN extract_evaluate_result(results[1][1])
                          ELSE <<>>,
          cookies |-> json_dumps(<<>>), local_storage |-> <<>>,
          session_storage |-> <<>>, viewport |-> <<>>])

\* lines 124-126: a call has raised, capture_state returns None
capture_failed(results) == None

\* lines 43-122, from the return of a call: the next call is issued, or
\* after the last the snapshot is returned
capture_next(calls, results) ==
    IF Len(results) < Len(CaptureFunctions)
    THEN [calls |-> Append(calls, CaptureFunctions[Len(results) + 1]), ret |-> None]
    ELSE [calls |-> calls, ret |-> Some(Some(SessionSnapshot(results)))]

\* no stream is modelled
ReaderIdle ==
    /\ wire = <<>> /\ feed = <<>> /\ buffer = <<>> /\ eof = FALSE
    /\ paused = FALSE /\ chunks = <<>> /\ rpc = "idle" /\ frames = <<>>
    /\ replies = <<>>

\* PlaywrightManager.__init__, and nothing started yet
Constructed ==
    /\ process = NoProc
    /\ is_healthy = FALSE
    /\ restart_attempts = <<>>
    /\ health_task = NoTask
    /\ message_id = 0
    /\ lock_owner = NoTask
    /\ lock_waiters = <<>>
    /\ pc = [t \in Tasks |-> IF t = Ext THEN "init"
                             ELSE IF t \in Callers THEN "idle" ELSE "none"]
    /\ fails = [t \in Loops |-> 0]
    /\ req = [t \in Tasks |-> 0]
    /\ aux = [t \in Tasks |-> NoProc]
    /\ outcome = [t \in Callers |-> "none"]
    /\ got = [t \in Callers |-> 0]
    /\ child = [c \in Children |-> "unborn"]
    /\ inbox = [c \in Children |-> <<>>]
    /\ outbox = [c \in Children |-> <<>>]
    /\ spawned = 0
    /\ now = 0
    /\ history = <<>>
    /\ wrote_unhealthy = FALSE
    /\ saw_restart = [t \in Callers |-> FALSE]
    /\ refused_oldest = -1
    /\ last_stop = "none"

\* nothing but the supervisor is modelled
SupInit == StoreEmpty /\ FilterIdle /\ ReaderIdle

Init == Constructed /\ held = {NoTask} /\ SupInit

(* ------------------------------ helpers ------------------------------- *)
Remove(q, t) == SelectSeq(q, LAMBDA x : x # t)

RECURSIVE Pow2(_)
Pow2(n) == IF n <= 0 THEN 1 ELSE 2 * Pow2(n - 1)

WaitPcs == {"lock_wait", "init_lock_wait"}
ReadPcs == {"read_wait", "init_read_wait"}
CallPcs == WaitPcs \cup ReadPcs

\* ids the calls already queued at the lock will still assign
Queued(s) == Cardinality({t \in Tasks : s.pc[t] \in WaitPcs})
\* the model lets a new call start only while an id is left for it
IdLeft(cap) == message_id + Queued(Cur) < cap

(* --------------------------- asyncio.Lock ----------------------------- *)
\* acquire that takes a held lock
LockFreeUnchecked(s) == TRUE

\* Lock.acquire takes the lock at once only when it is free: a released
\* lock with waiters is handed to the first waiter, never to a newcomer
LockFree(s) == s.lock_owner = NoTask

\* a lock that wakes the waiter that came last
lock_release_last(s) ==
    IF s.lock_waiters = <<>>
    THEN [s EXCEPT !.lock_owner = NoTask]
    ELSE [s EXCEPT !.lock_owner = s.lock_waiters[Len(s.lock_waiters)],
                   !.lock_waiters = SubSeq(@, 1, Len(@) - 1)]

\* Lock.release (leaving `async with self._lock`): the first waiter is woken
\* and owns the lock from then on
lock_release(s) ==
    IF s.lock_waiters = <<>>
    THEN [s EXCEPT !.lock_owner = NoTask]
    ELSE [s EXCEPT !.lock_owner = Head(s.lock_waiters),
                   !.lock_waiters = Tail(s.lock_waiters)]

(* ---------------------------- send_request ---------------------------- *)
\* the test of line 152 (stdin is always a pipe: start() asks for one)
NotHealthy(s) == ~s.is_healthy \/ s.process = NoProc

\* a send_request that writes its request with the id of the one before
write_request_same_id(s, t, readpc) ==
    LET id == IF s.message_id = 0 THEN 1 ELSE s.message_id
        s1 == [s EXCEPT !.message_id = id]
        p  == s1.process
    IN  IF p = NoProc
        THEN [lock_release(s1) EXCEPT !.ret = "AttributeError"]
        ELSE [s1 EXCEPT !.inbox[p] = IF s1.child[p] = "running"
                                     THEN Append(@, id) ELSE @,
                        !.req[t] = id, !.aux[t] = p, !.pc[t] = readpc,
                        !.wrote_unhealthy = @ \/ ~s1.is_healthy]

\* lines 156-174, run with the lock held: the id is assigned, the request
\* line written to self.process.stdin, and the task suspends reading one line
\* of self.process.stdout.  With the handle cleared, self.process.stdin raises
\* AttributeError.  A line written to a child that has exited is lost.
write_request(s, t, readpc) ==
    LET id == s.message_id + 1
        s1 == [s EXCEPT !.message_id = id]
        p  == s1.process
    IN  IF p = NoProc
        THEN [lock_release(s1) EXCEPT !.ret = "AttributeError"]
        ELSE [s1 EXCEPT !.inbox[p] = IF s1.child[p] = "running"
                                     THEN Append(@, id) ELSE @,
                        !.req[t] = id, !.aux[t] = p, !.pc[t] = readpc,
                        !.wrote_unhealthy = @ \/ ~s1.is_healthy]

\* lines 152-155: the health test, then `async with self._lock`
send_request(s, t, waitpc, readpc) ==
    IF NotHealthy(s) THEN [s EXCEPT !.ret = "NotHealthy"]
    ELSE IF LockFree(s)
         THEN write_request([s EXCEPT !.lock_owner = t], t, readpc)
         ELSE [s EXCEPT !.lock_waiters = Append(@, t), !.pc[t] = waitpc]

\* the reply lines send_request fails on, as entries of outbox: a line that
\* is no JSON text and a reply object with an error member
BadReplies == {-1, -2}
BadReply(line) == IF line = -1 THEN "JSONDecodeError" ELSE "RemoteError"

\* a send_request that clears the healthy flag when the call fails
read_reply_marks_unhealthy(s, t) ==
    LET c == s.aux[t]
    IN  IF s.outbox[c] # <<>> /\ Head(s.outbox[c]) \notin BadReplies
        THEN [lock_release([s EXCEPT !.outbox[c] = Tail(@)])
                EXCEPT !.ret = "result", !.line = Head(s.outbox[c])]
        ELSE [lock_release(s) EXCEPT !.ret = "EmptyResponse",
                                     !.is_healthy = FALSE]

\* lines 174-184: the next line of the stream is the reply; no line and the
\* stream at its end is the empty response.  The id of the line is not looked at.
read_reply(s, t) ==
    LET c == s.aux[t]
    IN  IF s.outbox[c] # <<>>
        THEN IF Head(s.outbox[c]) \in BadReplies
             THEN [lock_release([s EXCEPT !.outbox[c] = Tail(@)])
                     EXCEPT !.ret = BadReply(Head(s.outbox[c]))]
             ELSE [lock_release([s EXCEPT !.outbox[c] = Tail(@)])
                     EXCEPT !.ret = "result", !.line = Head(s.outbox[c])]
        ELSE [lock_release(s) EXCEPT !.ret = "EmptyResponse"]

\* a cancelled reader that keeps the lock
cancel_call_keeps_lock(s, t) ==
    IF s.pc[t] \in WaitPcs /\ s.lock_owner # t
    THEN [s EXCEPT !.lock_waiters = Remove(@, t)]
    ELSE s

\* CancelledError in a suspended send_request: a waiter leaves the queue (or
\* passes on the lock it was just handed), a reader leaves `async with`
cancel_call(s, t) ==
    IF s.pc[t] \in WaitPcs /\ s.lock_owner # t
    THEN [s EXCEPT !.lock_waiters = Remove(@, t)]
    ELSE lock_release(s)

\* app.py proxy_request (line 238): the handler gets the result or the exception
caller_return(s, c) ==
    [s EXCEPT !.pc[c] = "done", !.outcome[c] = s.ret, !.got[c] = s.line,
              !.ret = "", !.line = 0]

(* --------------------------- _attempt_restart -------------------------- *)
\* eviction of the attempts that are exactly restart_window old as well
RECURSIVE EvictEarly(_, _)
EvictEarly(q, t) ==
    IF q # <<>> /\ t - Head(q) >= restart_window THEN EvictEarly(Tail(q), t) ELSE q

\* lines 249-253
RECURSIVE Evict(_, _)
Evict(q, t) ==
    IF q # <<>> /\ t - Head(q) > restart_window THEN Evict(Tail(q), t) ELSE q

\* refusal only above the limit
ExhaustedOffByOne(q) == Len(q) > max_restart_attempts

\* line 256
Exhausted(q) == Len(q) >= max_restart_attempts

\* backoff of 2 to the number of attempts
BackoffByLength(q) == Pow2(Len(q))

\* line 267
Backoff(q) == Pow2(Len(q) - 1)

\* deque(maxlen=settings.max_restart_attempts).append (lines 24, 264): a full
\* deque drops its oldest entry
deque_append(q, x) ==
    IF Len(q) >= max_restart_attempts THEN Append(Tail(q), x) ELSE Append(q, x)

\* lines 246-269, up to the sleep.  tm is what time.time() returns; `cause`
\* is the child whose exit the loop saw, or NoProc after failed probes.  The
\* loop sets consecutive_failures to 0 when _attempt_restart returns and reads
\* it nowhere before, so the model clears it here.
attempt_restart(s, h, cause, tm) ==
    LET q == Evict(s.restart_attempts, tm)
    IN  IF Exhausted(q)
        THEN [s EXCEPT !.now = tm, !.restart_attempts = q,
                       !.refused_oldest = IF q = <<>> THEN tm ELSE Head(q),
                       !.fails[h] = 0, !.pc[h] = "sleep"]
        ELSE LET q2 == deque_append(q, tm)
             IN  [s EXCEPT !.now = tm, !.restart_attempts = q2,
                           !.history = Append(@, [at |-> tm,
                                                  backoff |-> Backoff(q2),
                                                  n |-> Len(q2),
                                                  cause |-> cause]),
                           !.fails[h] = 0, !.pc[h] = "backoff"]

(* ------------------------------- start -------------------------------- *)
\* a restart that stops the child and spawns none
start_skipped(s, t) == [s EXCEPT !.pc[t] = IF t = Ext THEN "spawn" ELSE "sleep"]

\* lines 29-51: up to `await asyncio.create_subprocess_exec`
start(s, t) == [s EXCEPT !.pc[t] = "spawn"]

\* lines 57-64 and the return to the caller of start(): the lifespan goes on
\* serving, a health-check loop goes back to its sleep (lines 218, 237)
finish_start(s, t) ==
    LET k  == Cardinality({l \in Loops : s.pc[l] # "none"}) + 1
        s1 == [s EXCEPT !.is_healthy = TRUE, !.health_task = Loop(k),
                        !.pc[Loop(k)] = "sleep", !.fails[Loop(k)] = 0,
                        !.req[t] = 0, !.aux[t] = NoProc,
                        !.ret = "", !.line = 0]
    IN  IF t = Ext THEN [s1 EXCEPT !.pc[t] = "running"]
        ELSE [s1 EXCEPT !.pc[t] = "sleep", !.fails[t] = 0]

\* lines 46-55: the child is spawned and the handle set, then _send_initialize
\* calls send_request and swallows its failure
spawn_done(s, t) ==
    LET c  == s.spawned + 1
        s1 == [s EXCEPT !.spawned = c, !.process = c, !.child[c] = "running"]
        s2 == send_request(s1, t, "init_lock_wait", "init_read_wait")
    IN  IF s2.ret # "" THEN finish_start(s2, t) ELSE s2

\* a restart whose failure ends the health-check loop
spawn_failed_ends_loop(s, t) == [s EXCEPT !.pc[t] = "done"]

\* create_subprocess_exec raises in the start() of a restart: start() logs
\* and raises again (lines 66-68), _attempt_restart catches and logs (lines
\* 278-280) and returns, and the loop goes on with line 218 or 237
spawn_failed(s, t) == [s EXCEPT !.pc[t] = "sleep", !.fails[t] = 0]

(* -------------------------------- stop -------------------------------- *)
\* Task.cancel() on a suspended health-check loop: CancelledError leaves
\* whatever it awaits and ends the loop (lines 239-240)
cancel_task(s, T) ==
    LET s1 == IF s.pc[T] \in CallPcs THEN cancel_call(s, T) ELSE s
    IN  [s1 EXCEPT !.pc[T] = "done", !.req[T] = 0, !.aux[T] = NoProc]

\* a stop() that leaves the process handle in place
stop_end_keeps_handle(s, t) ==
    LET s1 == [s EXCEPT !.is_healthy = FALSE, !.aux[t] = NoProc]
    IN  IF t = Ext THEN [s1 EXCEPT !.pc[t] = "stopped"]
        ELSE start(s1, t)

\* lines 101-102, then what the caller of stop() does next: the lifespan is
\* done, _attempt_restart calls start() (line 276)
stop_end(s, t) ==
    LET s1 == [s EXCEPT !.is_healthy = FALSE, !.process = NoProc,
                        !.aux[t] = NoProc]
    IN  IF t = Ext THEN [s1 EXCEPT !.pc[t] = "stopped"]
        ELSE start([s1 EXCEPT !.saw_restart =
                       [c \in Callers |-> @[c] \/ s.pc[c] = "lock_wait"]], t)

\* the task stop() cancels and awaits (lines 75-80): the registered loop,
\* unless it is the caller itself (the CancelledError of awaiting oneself is
\* swallowed by line 79) or has ended
CancelTarget(s, t) ==
    IF s.health_task # NoTask /\ s.health_task # t /\ s.pc[s.health_task] # "done"
    THEN s.health_task ELSE NoTask

\* lines 72-90: cancel the health check, terminate the child and wait for its
\* exit.  With no handle line 83 skips the block; on a child that has exited
\* terminate() raises ProcessLookupError, caught by line 98, or is a no-op and
\* wait() returns at once: either way nothing is waited for
stop(s, t) ==
    LET T  == CancelTarget(s, t)
        s1 == IF T # NoTask THEN cancel_task(s, T) ELSE s
    IN  IF s1.process # NoProc /\ s1.child[s1.process] = "running"
        THEN [s1 EXCEPT !.pc[t] = "stop_wait", !.aux[t] = s1.process]
        ELSE stop_end([s1 EXCEPT !.last_stop = IF s1.process = NoProc
                                               THEN "no_process" ELSE "exited"], t)

\* lines 88-90, 97, 101-102: the child has exited on SIGTERM within
\* shutdown_timeout
stop_wait_done(s, t) ==
    LET c == s.aux[t]
    IN  stop_end([s EXCEPT !.child[c] = "exited", !.inbox[c] = <<>>,
                           !.last_stop = "graceful"], t)

\* lines 91-95: wait_for times out on a child that ignores SIGTERM; kill()
\* and the second wait
stop_timeout(s, t) == [s EXCEPT !.pc[t] = "kill_wait"]

\* lines 95-102: the killed child is reaped
kill_wait_done(s, t) ==
    LET c == s.aux[t]
    IN  stop_end([s EXCEPT !.child[c] = "exited", !.inbox[c] = <<>>,
                           !.last_stop = "killed"], t)

(* ------------------------- _health_check_loop ------------------------- *)
\* a loop that keeps its count of failures when a probe succeeds
probe_ok_keeps_count(s, h) ==
    [s EXCEPT !.pc[h] = "sleep", !.req[h] = 0, !.aux[h] = NoProc,
              !.ret = "", !.line = 0]

\* line 226
probe_ok(s, h) ==
    [s EXCEPT !.fails[h] = 0, !.pc[h] = "sleep", !.req[h] = 0, !.aux[h] = NoProc,
              !.ret = "", !.line = 0]

\* lines 227-237
probe_failed(s, h, tm) ==
    LET n  == s.fails[h] + 1
        s1 == [s EXCEPT !.fails[h] = n, !.req[h] = 0, !.aux[h] = NoProc,
                        !.ret = "", !.line = 0]
    IN  IF n >= FailureThreshold
        THEN attempt_restart([s1 EXCEPT !.is_healthy = FALSE], h, NoProc, tm)
        ELSE [s1 EXCEPT !.pc[h] = "sleep"]

\* lines 209-225: one iteration, from the end of the sleep to the next suspension
SeesExit(s) == s.process # NoProc /\ s.child[s.process] = "exited"

health_check_iteration(s, h, tm) ==
    IF SeesExit(s)
    THEN attempt_restart([s EXCEPT !.is_healthy = FALSE], h, s.process, tm)
    ELSE LET s1 == send_request(s, h, "lock_wait", "read_wait")
         IN  IF s1.ret # "" THEN probe_failed(s1, h, tm) ELSE s1

\* what the task does when its send_request has ended
after_call(s, t, was, tm) ==
    IF t \in Callers THEN caller_return(s, t)
    ELSE IF was \in {"init_lock_wait", "init_read_wait"} THEN finish_start(s, t)
    ELSE IF s.ret = "result" THEN probe_ok(s, t) ELSE probe_failed(s, t, tm)

(* ------------------------------ actions ------------------------------- *)
\* POST /sessions (app.py lines 185-200): a session with a new uuid
CreateSession(x) ==
    /\ sessions[x] = "none"
    /\ \A y \in Sessions : y < x => sessions[y] # "none"
    /\ sessions' = [sessions EXCEPT ![x] = "active"]
    /\ http' = [op |-> "create_session", code |-> 200, session_id |-> x]
    /\ UNCHANGED <<requests, responses, diff_cursors, pending>>
    /\ UNCHANGED <<supVars, filterVars, readerVars>>

\* POST /proxy up to its await of send_request (lines 213-238).  request_id is
\* None, and the ref_id a uuid no row has, or the id the client chose
ProxyBegin(x, tool, request_id) ==
    /\ UNCHANGED <<sessions, responses, diff_cursors>>
    /\ UNCHANGED <<supVars, filterVars, readerVars>>
    /\ IF get_session(x) = "none"
       THEN /\ http' = [op |-> "proxy", code |-> 404, session_id |-> x]
            /\ UNCHANGED <<requests, pending>>
       ELSE IF get_session(x) # "active"
       THEN /\ http' = [op |-> "proxy", code |-> 400, session_id |-> x]
            /\ UNCHANGED <<requests, pending>>
       ELSE \E ref_id \in IF request_id # None THEN {request_id[1]}
                           ELSE Refs \ requests :
              IF conflict(requests, ref_id)
              THEN /\ http' = [op |-> "proxy", code |-> 500, session_id |-> x]
                   /\ UNCHANGED <<requests, pending>>
              ELSE /\ requests' = requests \cup {ref_id}
                   /\ pending' = [pending EXCEPT ![ref_id] =
                                      Some([session_id |-> x, tool |-> tool])]
                   /\ UNCHANGED http

\* send_request returns `result` to the proxy_request of ref_id (lines 244-287)
ProxyResult(ref_id, result) ==
    /\ pending[ref_id] # None
    /\ UNCHANGED <<sessions, requests, diff_cursors>>
    /\ UNCHANGED <<supVars, filterVars, readerVars>>
    /\ pending' = [pending EXCEPT ![ref_id] = None]
    /\ LET tool == pending[ref_id][1].tool
           row  == success_row(tool, result)
       IN  IF conflict({r \in Refs : responses[r] # None}, ref_id)
           THEN http' = [op |-> "proxy", code |-> 500] /\ UNCHANGED responses
           ELSE /\ responses' = [responses EXCEPT ![ref_id] = Some(row)]
                /\ http' = ProxyResponse(ref_id, row, tool)

\* send_request raises in the proxy_request of ref_id (lines 289-316)
ProxyError(ref_id, error_str) ==
    /\ pending[ref_id] # None
    /\ UNCHANGED <<requests, diff_cursors>>
    /\ UNCHANGED <<supVars, filterVars, readerVars>>
    /\ pending' = [pending EXCEPT ![ref_id] = None]
    /\ LET tool == pending[ref_id][1].tool
           row  == error_row(error_str)
       IN  IF conflict({r \in Refs : responses[r] # None}, ref_id)
           THEN /\ http' = [op |-> "proxy", code |-> 500]
                /\ UNCHANGED <<responses, sessions>>
           ELSE /\ responses' = [responses EXCEPT ![ref_id] = Some(row)]
                /\ sessions' = [sessions EXCEPT ![pending[ref_id][1].session_id] = "error"]
                /\ http' = ProxyResponse(ref_id, row, tool)

\* GET /content/{ref_id} (lines 318-430)
GetContent(ref_id, search_for, reset_cursor, before_lines, after_lines) ==
    /\ UNCHANGED <<sessions, requests, responses, pending>>
    /\ UNCHANGED <<supVars, filterVars, readerVars>>
    /\ LET out == get_content(ref_id, search_for, reset_cursor, before_lines,
                              after_lines)
       IN  /\ diff_cursors' = out.cursors
           /\ http' = [op |-> "get_content", ref_id |-> ref_id,
                       search_for |-> search_for,
                       reset_cursor |-> reset_cursor,
                       code |-> out.code, content |-> out.content]

\* handler k is called with the arguments a and runs to its await of the
\* cursor, or returns with the code and the content of reads[k]
ContentStart(k, a) ==
    /\ reads[k].at \in {"idle", "done"}
    /\ reads' = [reads EXCEPT ![k] = content_start(a)]
    /\ UNCHANGED storeVars
    /\ UNCHANGED <<supVars, readerVars>>
    /\ UNCHANGED <<filter_in, filter_out, replyVars, errorVars, captureVars>>

\* the get_diff_cursor of handler k returns the row as it is now
ContentCursor(k) ==
    /\ reads[k].at = "get_cursor"
    /\ reads' = [reads EXCEPT ![k] =
                    content_cursor(@, diff_cursors[reads[k].args.ref_id])]
    /\ UNCHANGED storeVars
    /\ UNCHANGED <<supVars, readerVars>>
    /\ UNCHANGED <<filter_in, filter_out, replyVars, errorVars, captureVars>>

\* the delete_diff_cursor of handler k is executed
ContentDelete(k) ==
    /\ reads[k].at = "delete"
    /\ diff_cursors' = [diff_cursors EXCEPT ![reads[k].args.ref_id] = None]
    /\ reads' = [SeenReset(k) EXCEPT ![k] = content_delete(@)]
    /\ UNCHANGED <<sessions, requests, responses, pending, http>>
    /\ UNCHANGED <<supVars, readerVars>>
    /\ UNCHANGED <<filter_in, filter_out, replyVars, errorVars, captureVars>>

\* the upsert_diff_cursor of handler k is executed and the handler returns:
\* its reply is the code and the content of reads[k]
ContentUpsert(k) ==
    /\ reads[k].at = "upsert"
    /\ diff_cursors' = [diff_cursors EXCEPT ![reads[k].args.ref_id] =
                            reads[k].cursor]
    /\ reads' = [(IF reads[k].args.reset_cursor THEN SeenReset(k) ELSE reads)
                    EXCEPT ![k].at = "done"]
    /\ UNCHANGED <<sessions, requests, responses, pending, http>>
    /\ UNCHANGED <<supVars, readerVars>>
    /\ UNCHANGED <<filter_in, filter_out, replyVars, errorVars, captureVars>>

\* the server process ends and is started again on the same database file
\* (lifespan, lines 127-129): the handlers under way are gone
ServerRestart ==
    /\ pending' = [r \in Refs |-> None]
    /\ http' = [op |-> "restart"]
    /\ responses' = reopen(responses)
    /\ diff_cursors' = reopen(diff_cursors)
    /\ UNCHANGED <<sessions, requests>>
    /\ UNCHANGED <<supVars, filterVars, readerVars>>

\* the reader after read_line_chunked has run from the state as it is
ReaderApply(r) ==
    /\ buffer' = r.buffer
    /\ paused' = r.paused
    /\ chunks' = r.chunks
    /\ rpc' = IF r.ret = None THEN "readuntil" ELSE "idle"
    /\ frames' = IF r.ret = None THEN frames ELSE Append(frames, r.ret[1])
    /\ replies' = IF r.ret = None THEN replies
                  ELSE Append(replies, handle_reply(r.ret[1]).ret)
    /\ UNCHANGED <<wire, feed, eof>>
    /\ UNCHANGED <<supVars, storeVars, filterVars>>

\* send_request calls _read_line_chunked (line 174); no call is made when
\* the stream has ended and is empty
ReadCall ==
    /\ rpc = "idle"
    /\ buffer # <<>> \/ ~eof
    /\ ReaderApply(read_line_chunked([buffer |-> buffer, paused |-> paused,
                                      eof |-> eof, chunks |-> <<>>,
                                      ret |-> None]))

\* the waiter of readuntil has been woken by feed_data or feed_eof
ReadWake ==
    /\ rpc = "woken"
    /\ ReaderApply(read_line_chunked([buffer |-> buffer, paused |-> paused,
                                      eof |-> eof, chunks |-> chunks,
                                      ret |-> None]))

\* the transport reads n bytes of the child's output from the pipe and calls
\* feed_data, which pauses the transport over twice the limit
FeedData(n) ==
    /\ ~paused /\ ~eof
    /\ n \in 1..Len(feed)
    /\ buffer' = buffer \o SubSeq(feed, 1, n)
    /\ feed' = SubSeq(feed, n + 1, Len(feed))
    /\ paused' = (Len(buffer') > 2 * StreamLimit)
    /\ rpc' = IF rpc = "readuntil" THEN "woken" ELSE rpc
    /\ UNCHANGED <<wire, eof, chunks, frames, replies>>
    /\ UNCHANGED <<supVars, storeVars, filterVars>>

\* the child has closed its stdout and the pipe is empty: feed_eof
FeedEof ==
    /\ ~paused /\ ~eof
    /\ feed = <<>>
    /\ eof' = TRUE
    /\ rpc' = IF rpc = "readuntil" THEN "woken" ELSE rpc
    /\ UNCHANGED <<wire, feed, buffer, paused, chunks, frames, replies>>
    /\ UNCHANGED <<supVars, storeVars, filterVars>>

\* filter_content applied to the arguments drawn
ApplyFilter ==
    /\ filter_out = None
    /\ filter_out' = Some(filter_content(filter_in.content, filter_in.search_for,
                                         filter_in.before_lines,
                                         filter_in.after_lines))
    /\ UNCHANGED <<filter_in, replyVars, errorVars, moreVars>>
    /\ UNCHANGED <<supVars, storeVars, readerVars>>

\* send_request goes on with the reply line it has read (lines 175-184)
HandleReply ==
    /\ reply_out = None
    /\ reply_out' = Some(handle_reply(reply_in))
    /\ UNCHANGED <<reply_in, filter_in, filter_out, errorVars, moreVars>>
    /\ UNCHANGED <<supVars, storeVars, readerVars>>

\* proxy_request answers with the error of the exception it caught (app.py
\* lines 290-315)
TruncateError ==
    /\ error_http = None /\ error_tool = None
    /\ error_http' = Some(truncate_error(error_in, ErrorMaxLength))
    /\ UNCHANGED <<error_in, error_tool, filter_in, filter_out, replyVars, moreVars>>
    /\ UNCHANGED <<supVars, storeVars, readerVars>>

\* the client turns the ProxyResponse with status error into the tool result
\* (mcp_server.py lines 228-236)
ToolError ==
    /\ error_http # None /\ error_tool = None
    /\ error_tool' = Some(tool_error(error_http[1]))
    /\ UNCHANGED <<error_in, error_http, filter_in, filter_out, replyVars, moreVars>>
    /\ UNCHANGED <<supVars, storeVars, readerVars>>

\* the request of the client fails with an exception of the text error_in
\* (mcp_server.py lines 238-247)
ToolException ==
    /\ error_http = None /\ error_tool = None
    /\ error_tool' = Some(tool_error(error_in))
    /\ UNCHANGED <<error_in, error_http, filter_in, filter_out, replyVars, moreVars>>
    /\ UNCHANGED <<supVars, storeVars, readerVars>>

\* capture_state is called and issues its first call (lines 43-53)
CaptureCall ==
    /\ cap_calls = <<>> /\ cap_ret = None
    /\ cap_calls' = capture_next(cap_calls, cap_got).calls
    /\ UNCHANGED <<cap_got, cap_ret, reads>>
    /\ UNCHANGED <<filter_in, filter_out, replyVars, errorVars>>
    /\ UNCHANGED <<supVars, storeVars, readerVars>>

\* the send_request under way returns `result` to capture_state
CaptureResult(result) ==
    /\ cap_ret = None
    /\ Len(cap_calls) = Len(cap_got) + 1
    /\ cap_got' = Append(cap_got, Some(result))
    /\ cap_calls' = capture_next(cap_calls, cap_got').calls
    /\ cap_ret' = capture_next(cap_calls, cap_got').ret
    /\ UNCHANGED <<reads, filter_in, filter_out, replyVars, errorVars>>
    /\ UNCHANGED <<supVars, storeVars, readerVars>>

\* the send_request under way raises in capture_state
CaptureRaise ==
    /\ cap_ret = None
    /\ Len(cap_calls) = Len(cap_got) + 1
    /\ cap_got' = Append(cap_got, None)
    /\ cap_ret' = Some(capture_failed(cap_got'))
    /\ UNCHANGED <<cap_calls, reads>>
    /\ UNCHANGED <<filter_in, filter_out, replyVars, errorVars>>
    /\ UNCHANGED <<supVars, storeVars, readerVars>>

\* what time.time() may return next, up to the end of the model's clock
Clock(cap) == now..(IF cap > now THEN cap ELSE now)

\* the application starts: lifespan calls start() (app.py line 134)
ExtStart == pc[Ext] = "init" /\ Apply(start(Cur, Ext), Ext)

\* the application shuts down: lifespan calls stop() (app.py line 160)
ExtStop == pc[Ext] = "running" /\ Apply(stop(Cur, Ext), Ext)

\* create_subprocess_exec returns
SpawnDone(t, cap, ids) ==
    /\ pc[t] = "spawn"
    /\ spawned < cap
    /\ ~is_healthy \/ IdLeft(ids)
    /\ Apply(spawn_done(Cur, t), t)

\* create_subprocess_exec raises (the executable is not there, no process
\* can be forked) in the start() that loop h called
SpawnFail(h) == pc[h] = "spawn" /\ Apply(spawn_failed(Cur, h), h)

\* a request handler calls send_request
CallerCall(c, ids) ==
    /\ pc[c] = "idle"
    /\ NotHealthy(Cur) \/ IdLeft(ids)
    /\ LET s == send_request(Cur, c, "lock_wait", "read_wait")
       IN  Apply(IF s.ret # "" THEN caller_return(s, c) ELSE s, c)

\* a task woken by Lock.release runs on with the lock
GateEnter(t, tcap) ==
    /\ pc[t] \in WaitPcs
    /\ lock_owner = t
    /\ \E tm \in Clock(tcap) :
         LET s == write_request(Cur, t, IF pc[t] = "lock_wait" THEN "read_wait"
                                        ELSE "init_read_wait")
         IN  Apply(IF s.ret # "" THEN after_call(s, t, pc[t], tm) ELSE s, t)

\* a reply line, or the end of the stream, reaches the reading task
ReadReply(t, tcap) ==
    /\ pc[t] \in ReadPcs
    /\ outbox[aux[t]] # <<>> \/ child[aux[t]] = "exited"
    /\ \E tm \in Clock(tcap) :
         Apply(after_call(read_reply(Cur, t), t, pc[t], tm), t)

\* the health-check sleep ends (line 209)
HcTick(h, ids, tcap) ==
    /\ pc[h] = "sleep"
    /\ SeesExit(Cur) \/ NotHealthy(Cur) \/ IdLeft(ids)
    /\ \E tm \in Clock(tcap) : Apply(health_check_iteration(Cur, h, tm), h)

\* wait_for gives the probe up after its timeout (lines 223-225)
ProbeTimeout(h, tcap) ==
    /\ pc[h] \in {"lock_wait", "read_wait"}
    /\ \E tm \in Clock(tcap) : Apply(probe_failed(cancel_call(Cur, h), h, tm), h)

\* the backoff sleep ends (line 269) and stop() begins
BackoffDone(h) == pc[h] = "backoff" /\ Apply(stop(Cur, h), h)

\* process.wait() returns in stop()
StopWaitDone(t) == pc[t] = "stop_wait" /\ Apply(stop_wait_done(Cur, t), t)

\* wait_for(process.wait(), shutdown_timeout) times out in stop() (line 91)
StopTimeout(t) == pc[t] = "stop_wait" /\ Apply(stop_timeout(Cur, t), t)

\* process.wait() returns after kill() (line 95)
KillWaitDone(t) == pc[t] = "kill_wait" /\ Apply(kill_wait_done(Cur, t), t)

\* the child answers the oldest request it has read, with that request's id
ChildReply(c) ==
    /\ child[c] = "running"
    /\ inbox[c] # <<>>
    /\ Apply([Cur EXCEPT !.inbox[c] = Tail(@),
                         !.outbox[c] = Append(@, Head(inbox[c]))], NoTask)

\* the child answers the oldest request it has read with a line that is no
\* JSON text, or with an error
ChildReplyBad(c, line) ==
    /\ child[c] = "running"
    /\ inbox[c] # <<>>
    /\ Apply([Cur EXCEPT !.inbox[c] = Tail(@),
                         !.outbox[c] = Append(@, line)], NoTask)

\* the child exits on its own
ChildExit(c) ==
    /\ child[c] = "running"
    /\ Apply([Cur EXCEPT !.child[c] = "exited", !.inbox[c] = <<>>], NoTask)

\* the supervisor with its callers, from startup on, within one time unit
Next ==
    \/ ExtStart
    \/ \E t \in {Ext} \cup Loops : SpawnDone(t, MaxSpawn, MaxMessageId)
    \/ \E c \in Callers : CallerCall(c, MaxMessageId)
    \/ \E t \in Tasks : GateEnter(t, now)
    \/ \E t \in Tasks : ReadReply(t, now)
    \/ \E h \in Loops : HcTick(h, MaxMessageId, now)
    \/ \E h \in Loops : ProbeTimeout(h, now)
    \/ \E h \in Loops : BackoffDone(h)
    \/ \E t \in Loops : StopWaitDone(t)
    \/ \E c \in Children : ChildReply(c)
    \/ \E c \in Children : ChildExit(c)

Spec == Init /\ [][Next]_vars

\* a task that the event loop will run at once: it has been handed the lock,
\* or the line (or the end of the stream) it reads has arrived
Ready ==
    \E t \in Tasks :
        \/ pc[t] \in WaitPcs /\ lock_owner = t
        \/ pc[t] \in ReadPcs /\ (outbox[aux[t]] # <<>> \/ child[aux[t]] = "exited")

\* a sleep or a timeout of a health-check loop ends: the timers run for
\* seconds, so none ends while a task is ready to run
TimerEnds(h) ==
    /\ ~Ready
    /\ \/ HcTick(h, MaxMessageId, now)
       \/ ProbeTimeout(h, now)
       \/ BackoffDone(h)

\* the runs of Spec in which a ready task runs before any timer ends
PromptNext ==
    \/ ExtStart
    \/ \E t \in {Ext} \cup Loops : SpawnDone(t, MaxSpawn, MaxMessageId)
    \/ \E c \in Callers : CallerCall(c, MaxMessageId)
    \/ \E t \in Tasks : GateEnter(t, now)
    \/ \E t \in Tasks : ReadReply(t, now)
    \/ \E h \in Loops : TimerEnds(h)
    \/ \E t \in Loops : StopWaitDone(t)
    \/ \E c \in Children : ChildReply(c)
    \/ \E c \in Children : ChildExit(c)

PromptSpec == Init /\ [][PromptNext]_vars

\* the steps of the supervisor's own tasks, with the clock running: no
\* request handler calls
SupTask(spawns, ids, tcap) ==
    \/ ExtStart
    \/ \E t \in {Ext} \cup Loops : SpawnDone(t, spawns, ids)
    \/ \E t \in Tasks : GateEnter(t, tcap)
    \/ \E t \in Tasks : ReadReply(t, tcap)
    \/ \E h \in Loops : HcTick(h, ids, tcap)
    \/ \E h \in Loops : ProbeTimeout(h, tcap)
    \/ \E h \in Loops : BackoffDone(h)
    \/ \E t \in Loops : StopWaitDone(t)

\* the supervisor alone with its children
SupStep(spawns, ids, tcap) ==
    \/ SupTask(spawns, ids, tcap)
    \/ \E c \in Children : ChildReply(c)
    \/ \E c \in Children : ChildExit(c)

SupNext == SupStep(SupMaxSpawn, SupMaxMessageId, MaxTime)

SupSpec == Init /\ [][SupNext]_vars

\* the health-check sleep ends while the child is down or not healthy
HcTickDown(h, tcap) ==
    /\ pc[h] = "sleep"
    /\ h \notin held
    /\ SeesExit(Cur) \/ NotHealthy(Cur)
    /\ \E tm \in Clock(tcap) : Apply(health_check_iteration(Cur, h, tm), h)

\* a restart is under way
Restarting == \E h \in Loops : pc[h] \in RestartPcs

\* the unit of time is the restart window of minutes: in RaceSpec the clock
\* does not move to the next unit while a restart is under way
RaceClock == IF Restarting THEN now ELSE MaxTime

\* the runs of the supervisor in which every child exits before it is probed:
\* the races of three health-check loops, which take five children
RaceNext ==
    \/ ExtStart
    \/ \E t \in {Ext} \cup Loops : SpawnDone(t, RaceMaxSpawn, SupMaxMessageId)
    \/ \E t \in Loops : ReadReply(t, RaceClock)
    \/ \E h \in Loops : HcTickDown(h, RaceClock)
    \/ \E h \in Loops : BackoffDone(h)
    \/ \E t \in Loops : StopWaitDone(t)
    \/ \E c \in Children : ChildReply(c)
    \/ \E c \in Children : ChildExit(c)

RaceInit == Constructed /\ held = {} /\ SupInit

RaceSpec == RaceInit /\ [][RaceNext]_vars

\* the supervisor alone, the clock running to LiveMaxTime
LiveNext == SupStep(SupMaxSpawn, SupMaxMessageId, LiveMaxTime)

\* what the event loop and the operating system guarantee to each task: its
\* timer fires when it has run out, it runs when it is ready, the child it has
\* terminated is reaped, and (the premise of recovery) the spawn it asks for
\* succeeds.  Nothing makes the child answer or exit.
LiveLoops == {Loop(k) : k \in 1..SupMaxSpawn}

LiveFairness ==
    /\ \A t \in {Ext} \cup LiveLoops :
          WF_vars(SpawnDone(t, SupMaxSpawn, SupMaxMessageId))
    /\ \A t \in LiveLoops : WF_vars(GateEnter(t, LiveMaxTime))
    /\ \A t \in LiveLoops : WF_vars(ReadReply(t, LiveMaxTime))
    /\ \A h \in LiveLoops : WF_vars(HcTick(h, SupMaxMessageId, LiveMaxTime))
    /\ \A h \in LiveLoops : WF_vars(ProbeTimeout(h, LiveMaxTime))
    /\ \A h \in LiveLoops : WF_vars(BackoffDone(h))
    /\ \A t \in LiveLoops : WF_vars(StopWaitDone(t))

LiveSpec == Init /\ [][LiveNext]_vars /\ LiveFairness

\* the supervisor from startup to shutdown and after: the lifespan calls
\* stop(), a child may ignore SIGTERM, and the health-check loops that are
\* still there go on
StopNext ==
    \/ SupStep(StopMaxSpawn, SupMaxMessageId, now)
    \/ ExtStop
    \/ StopWaitDone(Ext)
    \/ \E t \in {Ext} \cup Loops : StopTimeout(t)
    \/ \E t \in {Ext} \cup Loops : KillWaitDone(t)

StopSpec == Init /\ [][StopNext]_vars

\* the supervisor with its callers and a child whose replies may be bad
FailNext ==
    \/ Next
    \/ \E c \in Children, line \in BadReplies : ChildReplyBad(c, line)

FailSpec == Init /\ [][FailNext]_vars

\* the supervisor alone, with spawns that may fail in a restart
StartFailNext ==
    \/ SupStep(MaxSpawn, SupMaxMessageId, now)
    \/ \E h \in Loops : SpawnFail(h)

StartFailSpec == Init /\ [][StartFailNext]_vars

\* the supervisor two restarts after startup, as RaceSpec reaches it: the
\* first loop restarted the first child and the second loop the second, each
\* stop() cancelled the loop that called it and each start() created a loop
\* more, so three loops sleep; the third child has exited since
ThreeLoops ==
    /\ process = 3
    /\ is_healthy = TRUE
    /\ restart_attempts = <<2>>
    /\ health_task = Loop(3)
    /\ message_id = 0
    /\ lock_owner = NoTask
    /\ lock_waiters = <<>>
    /\ pc = [t \in Tasks |-> IF t = Ext THEN "running"
                             ELSE IF t \in Callers THEN "idle"
                             ELSE IF t \in {Loop(1), Loop(2), Loop(3)}
                             THEN "sleep" ELSE "none"]
    /\ fails = [t \in Loops |-> 0]
    /\ req = [t \in Tasks |-> 0]
    /\ aux = [t \in Tasks |-> NoProc]
    /\ outcome = [t \in Callers |-> "none"]
    /\ got = [t \in Callers |-> 0]
    /\ child = [c \in Children |-> IF c <= 3 THEN "exited" ELSE "unborn"]
    /\ inbox = [c \in Children |-> <<>>]
    /\ outbox = [c \in Children |-> <<>>]
    /\ spawned = 3
    /\ now = 2
    /\ history = << [n |-> 1, at |-> 0, cause |-> 1, backoff |-> 1],
                    [n |-> 1, at |-> 2, cause |-> 2, backoff |-> 1] >>
    /\ wrote_unhealthy = FALSE
    /\ saw_restart = [t \in Callers |-> FALSE]
    /\ refused_oldest = -1
    /\ last_stop = "exited"

OrphanInit == ThreeLoops /\ held = {NoTask} /\ SupInit

\* the request handler of OrphanSpec
OrphanCallers == {<<"caller", 1>>}

\* the child that self.process names answers the oldest request it has read
Answer(c) == process = c /\ ChildReply(c)

\* the supervisor from ThreeLoops on, with one request handler, within one
\* time unit: the child that self.process names answers or does not, no
\* other child answers and none exits on its own
OrphanNext ==
    \/ \E t \in Loops : SpawnDone(t, RaceMaxSpawn, SupMaxMessageId)
    \/ \E c \in OrphanCallers : CallerCall(c, SupMaxMessageId)
    \/ \E t \in Loops \cup OrphanCallers : GateEnter(t, now)
    \/ \E t \in Loops \cup OrphanCallers : ReadReply(t, now)
    \/ \E h \in Loops : HcTick(h, OrphanProbeIds, now)
    \/ \E h \in Loops : ProbeTimeout(h, now)
    \/ \E h \in Loops : BackoffDone(h)
    \/ \E t \in Loops : StopWaitDone(t)
    \/ \E c \in Children : Answer(c)

\* what the event loop and the operating system guarantee to each task, as
\* in LiveFairness, and the best case for a caller: the child that
\* self.process names answers every request it has read.  Nothing makes a
\* child answer whose handle has been overwritten.
OrphanFairness ==
    /\ \A t \in Loops : WF_vars(SpawnDone(t, RaceMaxSpawn, SupMaxMessageId))
    /\ \A t \in Loops \cup OrphanCallers : WF_vars(GateEnter(t, now))
    /\ \A t \in Loops \cup OrphanCallers : WF_vars(ReadReply(t, now))
    /\ \A h \in Loops : WF_vars(HcTick(h, OrphanProbeIds, now))
    /\ \A h \in Loops : WF_vars(ProbeTimeout(h, now))
    /\ \A h \in Loops : WF_vars(BackoffDone(h))
    /\ \A t \in Loops : WF_vars(StopWaitDone(t))
    /\ \A c \in Children : WF_vars(Answer(c))

OrphanSpec == OrphanInit /\ [][OrphanNext]_vars /\ OrphanFairness

(* ---------------------- the content store alone ---------------------- *)
StoreInit == Constructed /\ held = {NoTask} /\ StoreEmpty /\ FilterIdle /\ ReaderIdle

StoreNext ==
    \/ \E x \in Sessions : CreateSession(x)
    \/ \E x \in Sessions, tool \in Tools,
          request_id \in {None} \cup {Some(r) : r \in Refs} :
            ProxyBegin(x, tool, request_id)
    \/ \E ref_id \in Refs, result \in RawResults : ProxyResult(ref_id, result)
    \/ \E ref_id \in Refs : ProxyError(ref_id, "NotHealthy")
    \/ \E ref_id \in Refs, search_for \in Searches, reset_cursor \in BOOLEAN,
          before_lines \in 0..MaxContext, after_lines \in 0..MaxContext :
            GetContent(ref_id, search_for, reset_cursor, before_lines, after_lines)
    \/ ServerRestart

StoreSpec == StoreInit /\ [][StoreNext]_vars

(* ------------------ concurrent reads of stored content ---------------- *)
\* the store after one invoke of browser_snapshot on a new session has
\* stored a text of three lines under the first ref_id
ContentInit ==
    /\ Constructed /\ held = {NoTask} /\ FilterIdle /\ ReaderIdle
    /\ sessions = [x \in Sessions |-> IF x = 1 THEN "active" ELSE "none"]
    /\ requests = {1}
    /\ \E text \in {join(<< <<"x">>, <<"M">>, <<"x">> >>)} :
          LET row == success_row("browser_snapshot",
                                 [content |-> Some([text |-> Some(text)]),
                                  isError |-> FALSE])
          IN  /\ responses = [r \in Refs |-> IF r = 1 THEN Some(row) ELSE None]
              /\ http = ProxyResponse(1, row, "browser_snapshot")
    /\ diff_cursors = [r \in Refs |-> None]
    /\ pending = [r \in Refs |-> None]

ContentNext ==
    \/ \E k \in Readers, a \in ContentArgs : ContentStart(k, a)
    \/ \E k \in Readers : ContentCursor(k)
    \/ \E k \in Readers : ContentDelete(k)
    \/ \E k \in Readers : ContentUpsert(k)

ContentSpec == ContentInit /\ [][ContentNext]_vars

(* ------------------------ the line filter alone ----------------------- *)
FilterInit ==
    /\ Constructed /\ held = {NoTask} /\ StoreEmpty /\ ReaderIdle
    /\ filter_in \in FilterInputs
    /\ filter_out = None
    /\ ReplyIdle /\ ErrorIdle /\ MoreIdle

FilterNext == ApplyFilter

FilterSpec == FilterInit /\ [][FilterNext]_vars

(* ----------------------- the reply handling alone --------------------- *)
\* the reply lines: every text of up to MaxReply lexical units, with the
\* newline that ends a line or, at the end of the stream, without it
ReplyLines ==
    {l \o nl : l \in UNION {[1..n -> JsonTokens] : n \in 0..MaxReply},
               nl \in {<<>>, <<NL>>}}

ReplyInit ==
    /\ Constructed /\ held = {NoTask} /\ StoreEmpty /\ ReaderIdle
    /\ FilterOff /\ ErrorIdle /\ MoreIdle
    /\ reply_in \in ReplyLines
    /\ reply_out = None

ReplyNext == HandleReply

ReplySpec == ReplyInit /\ [][ReplyNext]_vars

(* ------------------------ the error texts alone ----------------------- *)
ErrorInit ==
    /\ Constructed /\ held = {NoTask} /\ StoreEmpty /\ ReaderIdle
    /\ FilterOff /\ ReplyIdle /\ MoreIdle
    /\ error_in \in ErrorTexts
    /\ error_http = None /\ error_tool = None

ErrorNext == TruncateError \/ ToolError \/ ToolException

ErrorSpec == ErrorInit /\ [][ErrorNext]_vars

(* ------------------------- capture_state alone ------------------------ *)
PureInit ==
    /\ Constructed /\ held = {NoTask} /\ StoreEmpty /\ ReaderIdle
    /\ FilterIdle

CaptureNext ==
    \/ CaptureCall
    \/ \E result \in EvaluateResults : CaptureResult(result)
    \/ CaptureRaise

CaptureSpec == PureInit /\ [][CaptureNext]_vars

(* ----------------------- the stream reader alone ---------------------- *)
ReaderInit ==
    /\ Constructed /\ held = {NoTask} /\ StoreEmpty /\ FilterIdle
    /\ wire \in WireInputs
    /\ feed = wire
    /\ buffer = <<>> /\ eof = FALSE /\ paused = FALSE
    /\ chunks = <<>> /\ rpc = "idle" /\ frames = <<>> /\ replies = <<>>

ReaderNext ==
    \/ ReadCall
    \/ ReadWake
    \/ \E n \in 1..MaxWire : FeedData(n)
    \/ FeedEof

\* the pipe delivers what the child has written, and the event loop runs a
\* reader that has been woken; nothing makes the child close its stdout
ReaderSpec ==
    /\ ReaderInit /\ [][ReaderNext]_vars
    /\ WF_vars(\E n \in 1..MaxWire : FeedData(n))
    /\ WF_vars(ReadWake)

(* ============================== claims =============================== *)

(* C1: every send_request that returns a result consumed the reply line of
   the request it wrote itself: the id of the reply equals the id of the
   request.  Stated for the request handlers, whose outcome is kept. *)
C1_ReplyMatchesRequest ==
    \A c \in Callers : outcome[c] = "result" => got[c] = req[c]

(* C2: at most one call is between writing its request line and the end of
   its read of one reply line, and that call holds the lock: no request line
   is written while another call still reads. *)
C2_SingleFlight ==
    \A t, u \in Tasks :
        pc[t] \in ReadPcs => /\ lock_owner = t
                             /\ (pc[u] \in ReadPcs => u = t)

\* two request handlers called concurrently: one reads, the other is queued
C2_Witness ==
    \E c, d \in Callers :
        /\ pc[c] = "read_wait"
        /\ pc[d] = "lock_wait"
        /\ d \in {lock_waiters[i] : i \in DOMAIN lock_waiters}

(* C3: no request line is ever written to the child's channel while
   is_healthy is false (with the handle cleared nothing can be written). *)
C3_NoWriteWhenUnhealthy == ~wrote_unhealthy

(* C4: a call that was waiting for the lock while a restart stopped the
   child ends with the not-healthy error and with nothing else. *)
C4_WaitersGetNotHealthy ==
    \A c \in Callers :
        saw_restart[c] /\ pc[c] = "done" => outcome[c] = "NotHealthy"

(* C5: at every moment at most one child process is alive. *)
LiveChildren == {c \in Children : child[c] = "running"}

C5_AtMostOneLiveChild == Cardinality(LiveChildren) <= 1

(* C6: for each exit of the child, with no calls pending, exactly one
   restart attempt is recorded: never two attempts for the same exit. *)
AttemptsFor(c) == {i \in DOMAIN history : history[i].cause = c}

C6_OneAttemptPerExit == \A c \in Children : Cardinality(AttemptsFor(c)) <= 1

(* C7: no more than max_restart_attempts restarts are permitted within any
   interval of restart_window: of any max_restart_attempts + 1 attempts
   recorded, the last is more than restart_window after the first. *)
C7_SlidingWindowBound ==
    \A i, j \in DOMAIN history :
        j - i >= max_restart_attempts
            => history[j].at - history[i].at > restart_window

\* more attempts than the cap have been permitted, the last after an eviction
C7_Witness ==
    /\ Len(history) > max_restart_attempts
    /\ Len(restart_attempts) < Len(history)

(* C8, as claimed: once a restart has been refused, no further restart
   attempt is made by the health monitor and is_healthy stays false. *)
C8_FatalOnceRefused ==
    [][refused_oldest # -1 => history' = history]_vars

(* C8, amended: after a refusal the health monitor asks again by itself, and
   a further attempt is recorded only when the attempt that was the oldest at
   the refusal is more than restart_window old. *)
C8_RetryOnlyAfterWindow ==
    [][refused_oldest # -1 /\ history' # history
          => now' - refused_oldest > restart_window]_vars

\* a restart was refused and a later attempt permitted
C8_Witness ==
    /\ refused_oldest # -1
    /\ history # <<>>
    /\ history[Len(history)].at - refused_oldest > restart_window

(* C9, as claimed: of two successive attempts within one restart window the
   later sleeps exactly twice the backoff of the earlier. *)
C9_BackoffDoubles ==
    \A i \in DOMAIN history :
        (i > 1 /\ history[i].at - history[i - 1].at <= restart_window)
            => history[i].backoff = 2 * history[i - 1].backoff

(* C9, amended: the backoff of an attempt is 2^(k-1), k the number of
   attempts recorded within restart_window before it, itself included; it is
   twice the backoff of the attempt before when no attempt has left the
   window in between. *)
InWindow(j) ==
    Cardinality({i \in 1..j : history[j].at - history[i].at <= restart_window})

C9_BackoffByWindowCount ==
    \A j \in DOMAIN history :
        /\ history[j].backoff = Pow2(InWindow(j) - 1)
        /\ (j > 1 /\ InWindow(j) = InWindow(j - 1) + 1)
              => history[j].backoff = 2 * history[j - 1].backoff

\* two successive attempts within one window with the same backoff
C9_Witness ==
    \E i \in DOMAIN history :
        /\ i > 1
        /\ history[i].at - history[i - 1].at <= restart_window
        /\ history[i].backoff = history[i - 1].backoff

(* C10: whenever the running supervisor is not healthy while a restart is
   under way or the restart budget is not exhausted, and a spawn can still
   succeed, is_healthy eventually becomes true again with a new live child. *)
BudgetLeft == ~Exhausted(Evict(restart_attempts, now))

CanRecover == spawned < SupMaxSpawn /\ (Restarting \/ BudgetLeft)

Recovered == is_healthy /\ process # NoProc /\ child[process] = "running"

C10_Recovers == (pc[Ext] = "running" /\ ~is_healthy /\ CanRecover) ~> Recovered

\* a second child is alive and healthy after a restart
C10_Witness == Recovered /\ history # <<>> /\ process > 1

\* task t calls stop(): the lifespan at shutdown, a loop after its backoff
StopCalled(t) ==
    /\ pc[t] \in {"running", "backoff"}
    /\ pc'[t] \in {"stop_wait", "stopped", "spawn"}

\* the stop() that task t called returns: the lifespan is done, the loop goes
\* on to start()
StopReturns(t) ==
    /\ pc[t] \in {"running", "backoff", "stop_wait", "kill_wait"}
    /\ pc'[t] \in {"stopped", "spawn"}

\* the supervisor is stopped: not healthy and no process handle
Stopped == ~is_healthy /\ process = NoProc

(* C11: whenever a stop() returns, is_healthy is false and the process handle
   is None, whichever path it took (no handle, a child that had exited, a
   child that exited on SIGTERM, a child killed after the timeout); and a
   stop() called on a stopped supervisor returns without suspending and
   leaves it stopped. *)
C11_StopClearsState ==
    [][\A t \in {Ext} \cup Loops :
          /\ StopReturns(t) => Stopped'
          /\ (StopCalled(t) /\ Stopped) => (StopReturns(t) /\ Stopped')]_vars

\* the lifespan's stop() has returned after it killed a child that ignored
\* SIGTERM
C11_Witness == pc[Ext] = "stopped" /\ last_stop = "killed" /\ Stopped

(* C12: whenever a stop() returns, the health-check loop that the preceding
   start() registered in _health_check_task has ended. *)
C12_MonitorEndedAtReturn ==
    [][\A t \in {Ext} \cup Loops :
          StopReturns(t) =>
              (health_task = NoTask \/ pc'[health_task] = "done")]_vars

\* ref_id has a response that was stored with a page snapshot
Artifact(ref_id) ==
    responses[ref_id] # None /\ responses[ref_id][1].page_snapshot # None

\* the stored text of ref_id, "" when NULL
Text(ref_id) ==
    IF Artifact(ref_id) THEN responses[ref_id][1].page_snapshot[1] ELSE <<>>

\* GET /content/{ref_id} with no options
PlainRead(ref_id) == GetContent(ref_id, <<>>, FALSE, 0, 0)

\* what C13 says of a plain read of ref_id
PlainReadAsClaimed(ref_id) ==
    IF diff_cursors[ref_id] = None
    THEN /\ http'.content = Text(ref_id)
         /\ diff_cursors'[ref_id] # None
         /\ diff_cursors'[ref_id][1].last_snapshot_hash = compute_hash(Text(ref_id))
    ELSE diff_cursors[ref_id][1].last_snapshot_hash = compute_hash(Text(ref_id))
            => (http'.content = <<>> /\ diff_cursors' = diff_cursors)

(* C13, as claimed: for every stored artifact, a read with no options finds
   no cursor, returns the full text and creates a cursor with the hash of
   the text; a read with no options that finds that cursor returns the empty
   result and leaves the cursor as it is. *)
C13_FirstReadThenEmpty ==
    [][\A ref_id \in Refs :
          (Artifact(ref_id) /\ PlainRead(ref_id)) => PlainReadAsClaimed(ref_id)]_vars

(* C13, amended: the same for every artifact whose text is not empty. *)
C13_FirstReadThenEmptyNonEmpty ==
    [][\A ref_id \in Refs :
          (Artifact(ref_id) /\ Text(ref_id) # <<>> /\ PlainRead(ref_id))
              => PlainReadAsClaimed(ref_id)]_vars

\* a plain read has just returned the empty result for an artifact with a
\* text, whose cursor holds the hash of the text
C13_Witness ==
    /\ http.op = "get_content" /\ http.code = 200
    /\ http.search_for = <<>> /\ ~http.reset_cursor
    /\ http.content = <<>>
    /\ Text(http.ref_id) # <<>>
    /\ diff_cursors[http.ref_id] = Some(DiffCursor(Text(http.ref_id)))

(* C14: for a reference id whose cursor holds the hash of the stored text
   (the artifact is as it was when it was last read in full), a read without
   reset returns the empty result whatever search filter and context it
   carries. *)
C14_FilteredReadStaysEmpty ==
    [][(/\ http'.op = "get_content"
        /\ diff_cursors[http'.ref_id] = Some(DiffCursor(Text(http'.ref_id)))
        /\ \E before_lines \in 0..MaxContext, after_lines \in 0..MaxContext :
              GetContent(http'.ref_id, http'.search_for, FALSE, before_lines,
                         after_lines))
          => http'.content = <<>>]_vars

\* what C15 says of a read of ref_id with reset
ResetReadAsClaimed(ref_id, search_for, before_lines, after_lines) ==
    /\ http'.content = filter_content(Text(ref_id), search_for, before_lines,
                                      after_lines)
    /\ diff_cursors'[ref_id] # None
    /\ diff_cursors'[ref_id][1].last_snapshot_hash = compute_hash(http'.content)

(* C15, as claimed: for every stored response and every prior cursor state, a
   read with reset returns the content (filtered when a filter is given) and
   leaves the one cursor of the reference id with the hash of what it
   returned. *)
C15_ResetReturnsContent ==
    [][\A before_lines \in 0..MaxContext, after_lines \in 0..MaxContext :
          (/\ http'.op = "get_content"
           /\ responses[http'.ref_id] # None
           /\ GetContent(http'.ref_id, http'.search_for, TRUE, before_lines,
                         after_lines))
              => ResetReadAsClaimed(http'.ref_id, http'.search_for,
                                    before_lines, after_lines)]_vars

(* C15, amended: the same for every stored response that has a page snapshot
   which is not empty. *)
C15_ResetReturnsContentOfSnapshot ==
    [][\A before_lines \in 0..MaxContext, after_lines \in 0..MaxContext :
          (/\ http'.op = "get_content"
           /\ responses[http'.ref_id] # None
           /\ HasSnapshot(responses[http'.ref_id][1])
           /\ GetContent(http'.ref_id, http'.search_for, TRUE, before_lines,
                         after_lines))
              => ResetReadAsClaimed(http'.ref_id, http'.search_for,
                                    before_lines, after_lines)]_vars

\* a filtered read with reset has just returned a filtered content and left
\* the cursor with its hash
C15_Witness ==
    /\ http.op = "get_content" /\ http.code = 200 /\ http.reset_cursor
    /\ http.search_for # <<>>
    /\ http.content # <<>> /\ http.content # Text(http.ref_id)
    /\ diff_cursors[http.ref_id] = Some(DiffCursor(http.content))

\* the raw result carries a text
CarriesText(result) == result.content # None /\ result.content[1].text # None

\* what C17 says of the proxy_request of ref_id that got `result`: the text
\* is stored under ref_id and the response to the caller is the reference id
\* with the metadata
InvokeAsClaimed(ref_id, result) ==
    /\ responses'[ref_id] # None
    /\ responses'[ref_id][1].status = "success"
    /\ responses'[ref_id][1].page_snapshot = result.content[1].text
    /\ http' = [op |-> "proxy", code |-> 200, ref_id |-> ref_id,
                status |-> "success", tool |-> pending[ref_id][1].tool,
                has_snapshot |-> TRUE, has_console_logs |-> FALSE,
                error |-> None]

\* the first read of a stored text, with no filter, returns the text
FirstReadReturnsText ==
    \A ref_id \in Refs :
        (/\ Artifact(ref_id)
         /\ diff_cursors[ref_id] = None
         /\ PlainRead(ref_id)) => http'.content = Text(ref_id)

(* C17, as claimed: every proxy_request whose raw result carries a text T
   stores T under its ref_id and answers with the ref_id and the metadata
   only, and the first read of the ref_id, with no filter, returns T. *)
C17_TextStoredAndReadBack ==
    [][/\ \A ref_id \in Refs, result \in RawResults :
            (CarriesText(result) /\ ProxyResult(ref_id, result))
                => InvokeAsClaimed(ref_id, result)
       /\ FirstReadReturnsText]_vars

(* C17, amended: the same for every proxy_request of the tool
   browser_snapshot. *)
C17_SnapshotStoredAndReadBack ==
    [][/\ \A ref_id \in Refs, result \in RawResults :
            (/\ CarriesText(result)
             /\ pending[ref_id] # None
             /\ pending[ref_id][1].tool = "browser_snapshot"
             /\ ProxyResult(ref_id, result))
                => InvokeAsClaimed(ref_id, result)
       /\ FirstReadReturnsText]_vars

\* the first read of a snapshot has just returned its text
C17_Witness ==
    /\ http.op = "get_content" /\ http.code = 200
    /\ http.search_for = <<>> /\ ~http.reset_cursor
    /\ responses[http.ref_id] # None
    /\ responses[http.ref_id][1].result = Some([tool |-> "browser_snapshot",
                                                isError |-> FALSE])
    /\ http.content # <<>>
    /\ http.content = Text(http.ref_id)

(* C18: in every state every row of diff_cursors belongs to a ref_id that
   has a row in responses. *)
C18_CursorHasResponse ==
    \A ref_id \in Refs : diff_cursors[ref_id] # None => responses[ref_id] # None

\* a read of a ref_id with no response was refused, and left no cursor,
\* while another ref_id has its cursor
C18_Witness ==
    /\ http.op = "get_content" /\ http.code = 404
    /\ diff_cursors[http.ref_id] = None
    /\ \E ref_id \in Refs : diff_cursors[ref_id] # None

(* C19: no step changes a row of responses once it is stored (neither a
   read, a filtered read, a reset, a later proxy_request nor a restart of
   the server), and a read of a ref_id changes nothing in the database but
   the cursor of that ref_id. *)
C19_ResponseImmutable ==
    [][/\ \A ref_id \in Refs :
            responses[ref_id] # None => responses'[ref_id] = responses[ref_id]
       /\ (http'.op = "get_content" /\ diff_cursors' # diff_cursors)
            => /\ UNCHANGED <<sessions, requests, responses>>
               /\ \A ref_id \in Refs \ {http'.ref_id} :
                     diff_cursors'[ref_id] = diff_cursors[ref_id]]_vars

\* the server has been restarted with two responses stored, one of them
\* read
C19_Witness ==
    /\ http.op = "restart"
    /\ \E ref_id \in Refs :
          /\ responses[ref_id] # None
          /\ diff_cursors[ref_id] # None
          /\ \E other \in Refs \ {ref_id} : responses[other] # None

\* the view of C16 for an input of the filter.  Lines count from 0.  kept: the
\* lines that contain the substring, or lie within before_lines before or
\* after_lines after a line that does; gaps: the kept lines followed by a
\* line left out and then by another kept line; pos(i): where kept line i
\* stands, after the kept lines and the separators before it.  The view is the
\* kept lines in their order with "--" after each gap
ExpectedView(in) ==
    LET lines   == split(in.content)
        indices == 0..(Len(lines) - 1)
        matches == {j \in indices : contains(lines[j + 1], in.search_for)}
        kept    == {i \in indices :
                      \E j \in matches : /\ j - in.before_lines <= i
                                         /\ i <= j + in.after_lines}
        gaps    == {k \in kept : k + 1 \notin kept /\ \E m \in kept : m > k}
        pos(i)  == Cardinality({k \in kept : k < i})
                     + Cardinality({k \in gaps : k < i}) + 1
    IN  join([p \in 1..(Cardinality(kept) + Cardinality(gaps)) |->
                 IF \E i \in kept : pos(i) = p
                 THEN lines[(CHOOSE i \in kept : pos(i) = p) + 1]
                 ELSE <<"-", "-">>])

\* the example of C16: line1/MATCH/line3/line4/MATCH2/line6, filter MATCH,
\* after=1, with "x" for the lines that do not match
ExampleIn ==
    [content |-> join(<< <<"x">>, <<"M">>, <<"x">>, <<"x">>, <<"M">>, <<"x">> >>),
     search_for |-> <<"M">>, before_lines |-> 0, after_lines |-> 1]

ExampleOut == join(<< <<"M">>, <<"x">>, <<"-", "-">>, <<"M">>, <<"x">> >>)

(* C16: the filtered content is the lines that contain the substring or lie
   within before_lines before or after_lines after such a line, each once and
   in their order, joined by newlines, with a line "--" between two kept
   lines exactly when lines between them were left out; and the example
   gives MATCH, line3, --, MATCH2, line6. *)
C16_FilteredView ==
    filter_out # None =>
        /\ filter_out[1] = ExpectedView(filter_in)
        /\ filter_in = ExampleIn => filter_out[1] = ExampleOut

\* the filter has been applied to the example
C16_Witness == filter_in = ExampleIn /\ filter_out = Some(ExampleOut)

\* the lines of wire: the i-th frame is the i-th line with its newline, and
\* what follows the last newline has none
WireLines == split(wire)

Frame(i) == IF i < Len(WireLines) THEN WireLines[i] \o <<NL>> ELSE WireLines[i]

\* no byte is lost, repeated or reordered: what was returned, what the call
\* under way holds, what is buffered and what is still to come make up wire
Conserved == bytes_join(frames) \o bytes_join(chunks) \o buffer \o feed = wire

\* every frame returned for a line longer than the limit that is followed by
\* a newline is that line with its newline
LongFramesIntact ==
    \A i \in 1..Len(frames) :
        (i < Len(WireLines) /\ Len(WireLines[i]) > StreamLimit)
            => frames[i] = Frame(i)

(* C20: a _read_line_chunked for a line that is followed by a newline
   returns, whatever the length of the line; every frame returned for a line
   longer than the limit is the line with its newline; and the bytes after
   the newline stay in the stream. *)
C20_ChunkedReadLossless ==
    /\ [](Conserved /\ LongFramesIntact)
    /\ (rpc # "idle" /\ find_newline(buffer \o feed) # -1) ~> (rpc = "idle")

\* a frame longer than the limit has been returned with its newline, and
\* bytes that follow it are still in the stream
C20_Witness ==
    /\ rpc = "idle"
    /\ frames # <<>>
    /\ Len(frames[1]) > StreamLimit + 1
    /\ frames[1] = Frame(1)
    /\ buffer \o feed # <<>>

\* the frame returned has no newline at its end
Unended(frame) == frame = <<>> \/ frame[Len(frame)] # NL

\* every frame returned is the next line of the stream: with its newline, or
\* at the end of the stream all the bytes after the last newline (no bytes,
\* when there are none)
FramesAreLines ==
    \A i \in 1..Len(frames) :
        /\ i <= Len(WireLines)
        /\ frames[i] = Frame(i)
        /\ Unended(frames[i]) => eof /\ i = Len(WireLines)

\* send_request fails with the empty response on a frame of no bytes, and on
\* no other
EmptyFrameFails ==
    /\ Len(replies) = Len(frames)
    /\ \A i \in 1..Len(frames) :
          (frames[i] = <<>>) <=> (replies[i] = "EmptyResponse")

(* C21: when the stream ends before a newline, _read_line_chunked returns
   the bytes accumulated since the last newline, those of the chunks already
   drained included, as the last frame; at the end of a stream with no bytes
   left it returns no bytes, and send_request then fails with the empty
   response and returns no result.  A call that waits when the stream ends
   does return. *)
C21_EndOfStream ==
    /\ [](FramesAreLines /\ EmptyFrameFails)
    /\ (rpc # "idle" /\ eof) ~> (rpc = "idle")

\* after a line, a frame longer than the limit was cut short by the end of
\* the stream and returned whole
C21_Witness ==
    /\ eof /\ rpc = "idle"
    /\ Len(frames) = 2
    /\ Len(frames[2]) > StreamLimit
    /\ Unended(frames[2])
    /\ bytes_join(frames) = wire

\* the reply is no JSON text, or a JSON object with neither member
Malformed(line) ==
    \/ json_loads(line) = None
    \/ /\ json_loads(line)[1].type = "object"
       /\ \A i \in 1..Len(line) : line[i] \notin Members

(* C22: send_request fails when the reply line is not valid JSON or is a
   JSON object with neither a result nor an error member: it never returns a
   result for such a line. *)
C22_MalformedReplyFails ==
    (reply_out # None /\ reply_in # <<>> /\ Malformed(reply_in))
        => reply_out[1].ret # "result"

\* the reply is a JSON object with an error member
HasError(line) ==
    /\ json_loads(line) # None
    /\ \E i \in 1..Len(line) : line[i] \in {"E", "F"}

\* the payload of the error member that counts, the last one
ErrorPayload(line) ==
    Payload(line[CHOOSE i \in 1..Len(line) :
                    /\ line[i] \in {"E", "F"}
                    /\ \A j \in (i + 1)..Len(line) : line[j] \notin {"E", "F"}])

(* C23: for a reply object with an error member send_request fails with an
   error that carries the payload of that member, whether or not the object
   has a result member too; it returns a result only for a reply without an
   error member. *)
C23_ErrorFieldFails ==
    reply_out # None =>
        /\ HasError(reply_in) =>
              /\ reply_out[1].ret = "RemoteError"
              /\ reply_out[1].value = ErrorPayload(reply_in)
        /\ reply_out[1].ret = "result" => ~HasError(reply_in)

\* a reply with a result member and an error member has been handled
C23_Witness ==
    /\ reply_in = <<"{", "R", ",", "F", "}", NL>>
    /\ reply_out # None
    /\ reply_out[1] = [ret |-> "RemoteError", value |-> "f"]

(* C24: a session whose invoke failed with NotHealthy takes a retry: when
   proxy_request has answered an invoke with the not-healthy error, the
   session of that invoke is still active, so that the same invoke on the
   same session is forwarded once the process has recovered. *)
C24_RetryAfterNotHealthy ==
    [][\A ref_id \in Refs :
          (/\ pending[ref_id] # None
           /\ pending'[ref_id] = None
           /\ responses'[ref_id] = Some(error_row("NotHealthy")))
              => sessions'[pending[ref_id][1].session_id] = "active"]_vars

\* `text` is `original`, or a prefix of it followed by the marker with the
\* length of `original`
Marked(text, original) ==
    \/ text = original
    \/ \E k \in 0..Len(original), dots \in {<<>>, Ellipsis} :
          text = slice(original, k) \o dots \o Marker(Len(original))

(* C25: the error text in the error field of the invoke response, and the
   error text in the tool result of the MCP client, is the complete error
   text or a prefix of it followed by the marker "(truncated, N total
   chars)", N the length of the error text: it is never cut without it. *)
C25_TruncationMarked ==
    /\ error_http # None => Marked(error_http[1], error_in)
    /\ error_tool # None => Marked(error_tool[1], error_in)

\* the send_request of request handler c ends in this step, with a failure
FailedCall(c) ==
    /\ pc[c] \in {"idle", "lock_wait", "read_wait"}
    /\ pc'[c] = "done"
    /\ outcome'[c] # "result"

\* a health-check loop is where it clears the flag: at the end of its sleep
\* with the child exited, at the failure of its third probe in a row, or in
\* the stop() of the restart that follows
MonitorClears ==
    \E h \in Loops :
        \/ pc[h] = "sleep" /\ SeesExit(Cur)
        \/ /\ pc[h] \in {"sleep", "lock_wait", "read_wait"}
           /\ fails[h] + 1 >= FailureThreshold
        \/ pc[h] \in {"backoff", "stop_wait", "kill_wait"}

(* C26: a call that fails (bad reply, no reply, remote error, not healthy)
   leaves the healthy flag, the process handle and the restart attempts as
   they were; the healthy flag is cleared only in a step of a health-check
   loop, after an exit of the child or three failed probes in a row. *)
C26_FailedCallKeepsHealth ==
    [][/\ \A c \in Callers :
            FailedCall(c) => /\ is_healthy' = is_healthy
                             /\ process' = process
                             /\ restart_attempts' = restart_attempts
       /\ (is_healthy /\ ~is_healthy') =>
            /\ MonitorClears
            /\ \A c \in Callers : pc'[c] = pc[c] /\ outcome'[c] = outcome[c]
            /\ pc'[Ext] = pc[Ext]]_vars

\* both request handlers have failed, one on a line that is no JSON text and
\* one on a remote error, and the manager is healthy with its first child
C26_Witness ==
    /\ \E c, d \in Callers :
          /\ pc[c] = "done" /\ outcome[c] = "JSONDecodeError"
          /\ pc[d] = "done" /\ outcome[d] = "RemoteError"
    /\ is_healthy
    /\ process = 1 /\ child[1] = "running"
    /\ restart_attempts = <<>>

(* C27: start() writes the initialize request to the child it has spawned
   before it marks the process healthy: from the return of
   create_subprocess_exec it goes on to the handshake, waiting for the lock
   or for the reply, and never straight to the end of start(). *)
C27_HandshakeBeforeHealthy ==
    [][\A t \in {Ext} \cup Loops :
          pc[t] = "spawn" =>
              pc'[t] \in {"spawn", "init_lock_wait", "init_read_wait", "done"}]_vars

\* the place of task t in the queue of the lock, 0 when it is not there
Pos(t) ==
    IF \E i \in DOMAIN lock_waiters : lock_waiters[i] = t
    THEN CHOOSE i \in DOMAIN lock_waiters : lock_waiters[i] = t
    ELSE 0

\* c and d have called send_request and neither has entered the gate yet; c
\* is ahead: it has been handed the lock, or is before d in the queue
Ahead(c, d) ==
    /\ pc[c] = "lock_wait" /\ pc[d] = "lock_wait"
    /\ \/ lock_owner = c
       \/ lock_owner # d /\ Pos(c) > 0 /\ Pos(c) < Pos(d)

(* C28: of two calls of send_request the one issued first enters the gate
   first, and a call completes before the next one enters: a call issued
   while another waits or reads is queued behind it, the order of the queue
   is kept until the first of the two enters, and no call enters or returns
   a result while another reads. *)
C28_GateInCallOrder ==
    [][\A c, d \in Callers :
          c # d =>
            /\ (pc[c] \in {"lock_wait", "read_wait"} /\ pc[d] = "idle") =>
                  /\ pc'[d] # "read_wait"
                  /\ (pc[c] = "lock_wait" /\ pc'[d] = "lock_wait") => Ahead(c, d)'
            /\ Ahead(c, d) =>
                  /\ pc'[d] = "lock_wait"
                  /\ pc'[c] = "lock_wait" => Ahead(c, d)'
            /\ (pc[c] = "read_wait" /\ pc[d] # "done") =>
                  /\ pc'[d] # "read_wait"
                  /\ pc'[d] = "done" => outcome'[d] = "NotHealthy"]_vars

\* two calls issued while a health probe reads were queued in call order,
\* entered the gate in that order, and both returned a result
C28_Witness ==
    \E c, d \in Callers :
        /\ c # d
        /\ pc[c] = "done" /\ pc[d] = "done"
        /\ outcome[c] = "result" /\ outcome[d] = "result"
        /\ req[c] = 2 /\ req[d] = 3

\* task t writes a request line in this step
Writes(t) ==
    /\ pc[t] \notin ReadPcs
    /\ pc'[t] \in ReadPcs

(* C29: the id of every request written is larger than the id of every
   request written before: a step that writes a request writes it with the
   id message_id + 1 and leaves that id in message_id, and message_id never
   goes down, whoever calls, however calls before have ended, and whichever
   child is written to. *)
C29_IdsStrictlyIncrease ==
    [][/\ message_id' \in {message_id, message_id + 1}
       /\ \A t \in Tasks :
            Writes(t) => /\ req'[t] = message_id + 1
                         /\ message_id' = message_id + 1
       /\ \A c \in Children :
            Len(inbox'[c]) > Len(inbox[c]) =>
                /\ inbox'[c] = Append(inbox[c], message_id + 1)
                /\ message_id' = message_id + 1]_vars

\* a request handler has written to the first child, a probe was given up,
\* the child was restarted, and the other handler writes to the second child
\* with the next id
C29_Witness ==
    \E c, d \in Callers :
        /\ pc[c] = "done" /\ aux[c] = 1 /\ req[c] \in {1, 2}
        /\ pc[d] = "read_wait" /\ aux[d] = 2 /\ req[d] = 3
        /\ message_id = 3
        /\ history # <<>>

\* proxy_request answers in this step, before it has called send_request
AnswersAtOnce ==
    /\ http' # http
    /\ http'.op = "proxy"
    /\ "session_id" \in DOMAIN http'

(* C30: an invoke that names a session that does not exist is answered with
   404 and one that names a session that is not active with 400, and with
   nothing else; such an invoke creates no request and no response record,
   calls no send_request, and leaves the sessions as they are. *)
C30_InactiveSessionRejected ==
    [][/\ AnswersAtOnce =>
            /\ http'.code = 404 <=> sessions[http'.session_id] = "none"
            /\ http'.code = 400 <=> sessions[http'.session_id] \notin {"none", "active"}
            /\ http'.code \in {400, 404} =>
                  /\ UNCHANGED <<sessions, requests, responses, pending>>
                  /\ UNCHANGED supVars
       /\ \A ref_id \in Refs :
            (pending[ref_id] = None /\ pending'[ref_id] # None) =>
                sessions[pending'[ref_id][1].session_id] = "active"]_vars

\* an invoke on a session that an earlier failure left in the state error
\* has been answered with 400, and one request record exists
C30_Witness ==
    /\ http.op = "proxy"
    /\ http.code = 400
    /\ sessions[http.session_id] = "error"
    /\ Cardinality(requests) = 1
    /\ \A r \in Refs : pending[r] = None
\* a is the beginning of b
IsPrefix(a, b) == Len(a) <= Len(b) /\ a = SubSeq(b, 1, Len(a))

\* the text of a result: that of its first content item, "" when it has none
TextOf(r) == extract_evaluate_result(r[1])

\* the snapshot holds what the five calls returned, each in its field
BuiltFrom(snapshot, results) ==
    /\ snapshot.current_url = TextOf(results[1])
    /\ snapshot.cookies = json_dumps(parse_cookie_string(TextOf(results[2])))
    /\ snapshot.local_storage = TextOf(results[3])
    /\ snapshot.session_storage = TextOf(results[4])
    /\ snapshot.viewport = TextOf(results[5])

(* C31: capture_state issues its calls in the order URL, cookies,
   localStorage, sessionStorage, viewport, each after the one before has
   returned; when it returns a snapshot it has issued exactly these five and
   the snapshot is built from their five results; when a call has raised it
   has issued no further call and returns None, never a snapshot. *)
C31_CaptureAllOrNothing ==
    /\ IsPrefix(cap_calls, CaptureFunctions)
    /\ Len(cap_got) <= Len(cap_calls) /\ Len(cap_calls) <= Len(cap_got) + 1
    /\ (\E i \in 1..Len(cap_got) : cap_got[i] = None)
          => (cap_ret = Some(None) /\ Len(cap_calls) = Len(cap_got))
    /\ (cap_ret # None /\ cap_ret[1] # None)
          => /\ cap_calls = CaptureFunctions
             /\ Len(cap_got) = Len(CaptureFunctions)
             /\ \A i \in 1..Len(cap_got) : cap_got[i] # None
             /\ BuiltFrom(cap_ret[1][1], cap_got)

\* a snapshot has been returned, with the one cookie of a text of two parts
C31_Witness ==
    /\ cap_ret # None /\ cap_ret[1] # None
    /\ cap_ret[1][1].cookies = json_dumps(<<[name |-> "n", value |-> "v"]>>)
    /\ cap_got[2] = Some([content |-> Some([text |-> Some(<< <<"x">>, <<"n", "v">> >>)])])
    /\ cap_ret[1][1].viewport = <<>>

\* the reply line the task reads is there and send_request takes it
GoodReply(t) == outbox[aux[t]] # <<>> /\ Head(outbox[aux[t]]) \notin BadReplies

\* the probe of loop h ends in this step with an exception: send_request
\* raises at once, wait_for gives it up, the write fails, or the reply is
\* none or a bad one
ProbeFails(h) ==
    \/ HcTick(h, MaxMessageId, now) /\ ~SeesExit(Cur) /\ pc'[h] \notin CallPcs
    \/ ProbeTimeout(h, now)
    \/ GateEnter(h, now) /\ pc[h] = "lock_wait" /\ pc'[h] # "read_wait"
    \/ ReadReply(h, now) /\ pc[h] = "read_wait" /\ ~GoodReply(h)

\* the probe of loop h ends in this step with a result
ProbeSucceeds(h) == ReadReply(h, now) /\ pc[h] = "read_wait" /\ GoodReply(h)

\* loop h finds at the end of its sleep that the child has exited
ExitSeen(h) == pc[h] = "sleep" /\ SeesExit(Cur) /\ HcTick(h, MaxMessageId, now)

\* loop h has called _attempt_restart in this step, after failed probes
RestartTriggered(h) ==
    /\ fails'[h] = 0
    /\ ~is_healthy'
    /\ \/ pc'[h] = "sleep" /\ history' = history /\ refused_oldest' # -1
       \/ /\ pc'[h] = "backoff"
          /\ Len(history') = Len(history) + 1
          /\ history'[Len(history')].cause = NoProc

(* C32: a probe of a health-check loop that succeeds sets the loop's count
   of consecutive failures to zero; a probe that fails raises it by one; the
   loop triggers a restart because of probes in exactly the steps in which
   the count reaches 3, and the count is zero once the restart is triggered;
   nothing else changes the count, and a loop goes to the backoff of a
   restart only so or after it has seen the exit of the child. *)
C32_ThreeFailuresInARow ==
    [][\A h \in Loops :
          /\ ProbeSucceeds(h) =>
                fails'[h] = 0 /\ pc'[h] = "sleep" /\ history' = history
          /\ ProbeFails(h) =>
                IF fails[h] + 1 < FailureThreshold
                THEN /\ fails'[h] = fails[h] + 1
                     /\ pc'[h] = "sleep"
                     /\ history' = history /\ is_healthy' = is_healthy
                ELSE RestartTriggered(h)
          /\ fails'[h] # fails[h] =>
                ProbeSucceeds(h) \/ ProbeFails(h) \/ ExitSeen(h)
          /\ (pc[h] # "backoff" /\ pc'[h] = "backoff") =>
                \/ ExitSeen(h)
                \/ ProbeFails(h) /\ fails[h] = FailureThreshold - 1]_vars

\* a loop sleeps the backoff of a restart it triggered after three failed
\* probes, the last of which it gave up while the child was running
C32_Witness ==
    \E h \in Loops :
        /\ pc[h] = "backoff" /\ fails[h] = 0
        /\ ~is_healthy
        /\ history # <<>> /\ history[Len(history)].cause = NoProc
        /\ process # NoProc /\ child[process] = "running"

(* C33: a health-check loop ends only in a step in which stop() is called,
   and whenever stop() is called while a loop is registered in
   _health_check_task, that loop has ended when the step is over, wherever
   it was suspended (in its sleep, waiting for the lock or for the reply,
   in the backoff, or in the stop() or start() of a restart), with its count
   of failures as it was and no restart attempt recorded. *)
C33_CancelEndsLoop ==
    [][/\ \A h \in Loops :
            (pc[h] # "done" /\ pc'[h] = "done")
                => \E t \in {Ext} \cup Loops : StopCalled(t)
       /\ \A t \in {Ext} \cup Loops :
            (StopCalled(t) /\ health_task # NoTask) =>
                /\ pc'[health_task] = "done"
                /\ fails'[health_task] = fails[health_task]
                /\ history' = history]_vars

\* the health-check loops that have been created and have not ended
LiveLoopSet == {h \in Loops : pc[h] \notin {"none", "done"}}

(* C35: at every moment at most one health-check loop is alive. *)
C35_AtMostOneLoop == Cardinality(LiveLoopSet) <= 1

(* C36: once the stop() of the lifespan has returned, no child is spawned,
   no restart attempt is recorded and is_healthy does not become true. *)
C36_StaysStopped ==
    [][pc[Ext] = "stopped" =>
          /\ spawned' = spawned
          /\ history' = history
          /\ ~is_healthy']_vars

\* no restart is under way but that of loop h
OnlyRestart(h) == \A g \in Loops \ {h} : pc[g] \notin RestartPcs

(* C34: when the start() of a restart fails, the health-check loop that
   called it is not ended by the exception: it is back in its sleep, the
   healthy flag, the process handle and the restart attempts are as stop()
   and the restart policy left them, the flag false when no other start() is
   under way; and is_healthy is never true without a process handle. *)
C34_FailedStartSurvived ==
    /\ [](process = NoProc => ~is_healthy)
    /\ [][\A h \in Loops :
             SpawnFail(h) =>
                 /\ pc'[h] = "sleep"
                 /\ is_healthy' = is_healthy /\ process' = process
                 /\ restart_attempts' = restart_attempts
                 /\ OnlyRestart(h) => (~is_healthy' /\ process' = NoProc)]_vars

\* after a start() that failed, with no process and no other restart under
\* way, a loop has triggered the next restart and sleeps its backoff
C34_Witness ==
    \E h \in Loops :
        /\ pc[h] = "backoff" /\ OnlyRestart(h)
        /\ process = NoProc /\ ~is_healthy
        /\ Len(history) > 1 /\ history[Len(history)].cause = NoProc

\* the probe of loop h waits for the lock, which it has not been handed
WaitsForGate(h) == pc[h] = "lock_wait" /\ lock_owner # h

(* C37: a probe that has written no request is not counted as failed: a
   loop whose probe waits for the lock that another call holds goes on
   waiting until it is handed the lock or stop() cancels it; its count of
   failures is not raised and it triggers no restart. *)
C37_GateWaitNotCounted ==
    [][\A h \in Loops :
          WaitsForGate(h) =>
              /\ pc'[h] \in {"lock_wait", "done"}
              /\ fails'[h] = fails[h]]_vars

(* C38: the gate is held by no call that has ended: the task that holds the
   lock is in a send_request, waiting to run on with the lock it was handed
   or reading its reply; every task queued at the lock is in a send_request
   and waits; and the lock is free only when no task is queued, so that a
   release always passes the lock on. *)
C38_GateReleased ==
    /\ \A t \in Tasks : lock_owner = t => pc[t] \in CallPcs
    /\ \A i \in DOMAIN lock_waiters :
          /\ pc[lock_waiters[i]] \in WaitPcs
          /\ lock_waiters[i] # lock_owner
    /\ lock_owner = NoTask => lock_waiters = <<>>

\* calls have ended on the end of the stream, on a remote error and by the
\* timeout of a probe, and the lock is free
C38_Witness ==
    /\ lock_owner = NoTask /\ lock_waiters = <<>>
    /\ \E c, d \in Callers :
          /\ pc[c] = "done" /\ outcome[c] = "EmptyResponse"
          /\ pc[d] = "done" /\ outcome[d] = "RemoteError"
    /\ \E h \in Loops : pc[h] = "sleep" /\ fails[h] > 0 /\ is_healthy

\* handler k has returned from a read without reset with a content that is
\* not empty, and no reset has been made since it was called
ReturnedContent(k) ==
    /\ reads[k].at = "done" /\ reads[k].code = 200
    /\ ~reads[k].args.reset_cursor
    /\ ~reads[k].reset_seen
    /\ reads[k].content # <<>>

(* C39: of two reads without reset of the same reference id with the same
   options, with no reset between them, at most one returns a content that
   is not empty, also when the two are handled at the same time. *)
C39_OneReadReturnsContent ==
    \A k, j \in Readers :
        (k # j /\ ReturnedContent(k) /\ ReturnedContent(j))
            => reads[k].args # reads[j].args

\* task t reads the stdout of a child that runs and that self.process no
\* longer names: no stop() will terminate it
ReadsOrphan(t) ==
    /\ pc[t] \in ReadPcs
    /\ child[aux[t]] = "running"
    /\ process # aux[t]

(* C40: every call to send_request eventually ends, by returning or by
   raising: a caller does not wait for ever for the lock or for a reply
   line. *)
C40_EveryCallEnds ==
    \A c \in Callers : (pc[c] \in CallPcs) ~> (pc[c] = "done")

====
